---- MODULE Spec2Model ----
(***************************************************************************)
(* The '/init' command of package slashinit (bootc.go, lines 276-713):     *)
(* Main with its two nested deferred recovery boundaries, pivotRoot and    *)
(* its helpers, the finalizer steps, the installer and emergencyShell,     *)
(* together with the end of the start command that Main calls last.        *)
(* Further down, each under a specification of its own: the mount command  *)
(* (mount.go), the start command (start.go), the vnet daemon's redis       *)
(* publication (vnetd.go) and grub's RunMenu (grub.go).                    *)
(*                                                                         *)
(* A path is the sequence of its components: /usr/bin/goes is              *)
(* <<"usr","bin","goes">> and / is <<>>.  An environment value is the      *)
(* sequence of its tokens, the separators "," and ":" being tokens of      *)
(* their own.  A filesystem is a function from the paths present in it to  *)
(* their entries.                                                          *)
(***************************************************************************)
EXTENDS Integers, Sequences, FiniteSets, TLC

VARIABLES
    env,        \* process environment: goesroot, goesinstaller, goes
    pc,         \* position of the process in Main and its callees
    i,          \* index of the table loop the process is in
    panicking,  \* a panic is unwinding and no recover() has stopped it yet
    root,       \* Main's local root
    script,     \* Main's local script
    fsOld,      \* the ramdisk root filesystem
    fsNew,      \* the filesystem of the goesroot device
    mounts,     \* the mount table: set of [fs, at]
    cwd,        \* working directory: <<fs, path>>
    chrooted,   \* syscall.Chroot(".") succeeded
    ops,        \* every operation performed so far, in order
    reqs,       \* installer's local reqs: the Filename of each request
    inst,       \* how the installer call ended: "none", "nil", "err", "panic"
    shell,      \* emergencyShell: [n, last, printed]
    flag,       \* mount: the options flags.New found on the command line
    fstab,      \* mount: the entries loadFstab read from /etc/fstab
    goroutines, \* mount: position of the goMountone started for each entry
    rchan,      \* mount: the results buffered in mountall's channel
    complete,   \* mount: mountall's count of results received
    parm,       \* start: the parameters parms.New found on the command line
    kvpub,      \* vnetd: Info.kvpub, the buffered channel of key_value
    spub,       \* vnetd: Info.spub, the strings handed to redis.Publish
    eventPool,  \* vnetd: Info.eventPool, the events free for reuse
    events,     \* vnetd: the event objects made so far: [key, value, err]
    eventq,     \* vnetd: the events signalled to the vnet loop, in order
    menu        \* grub: RunMenu's m, the menu entries on offer

\* the state of the mount command
mountVars == <<flag, fstab, goroutines, rchan, complete>>

\* the state of the vnet daemon
vnetVars == <<kvpub, spub, eventPool, events, eventq>>

vars == <<env, pc, i, panicking, root, script, fsOld, fsNew, mounts, cwd, chrooted,
          ops, reqs, inst, shell, mountVars, parm, vnetVars, menu>>

\* emergencyShell's iteration counter wraps at this value.
ShellWrap == 2

-----------------------------------------------------------------------------
(* Sequences, paths and environment strings *)

IsPrefix(s, t) == Len(s) <= Len(t) /\ SubSeq(t, 1, Len(s)) = s

Dir(p) == SubSeq(p, 1, Len(p) - 1)

RECURSIVE Clean(_)
\* path/filepath resolution of "..": a component ".." drops what precedes it
Clean(p) ==
    IF \A k \in 1..Len(p) : p[k] # ".." THEN p
    ELSE LET k == CHOOSE n \in 1..Len(p) :
                      p[n] = ".." /\ \A m \in 1..(n - 1) : p[m] # ".."
         IN  Clean(SubSeq(p, 1, k - 2) \o SubSeq(p, k + 1, Len(p)))

RECURSIVE SplitOn(_, _)
\* strings.Split(s, sep): always at least one field
SplitOn(s, sep) ==
    IF \A k \in 1..Len(s) : s[k] # sep THEN <<s>>
    ELSE LET k == CHOOSE n \in 1..Len(s) :
                      s[n] = sep /\ \A m \in 1..(n - 1) : s[m] # sep
         IN  <<SubSeq(s, 1, k - 1)>> \o SplitOn(SubSeq(s, k + 1, Len(s)), sep)

\* a list separator of ","
CommaSeparator == ","

\* os.PathListSeparator on Linux
PathListSeparator == ":"

\* filepath.SplitList: the empty string gives the empty list
SplitList(s) == IF s = <<>> THEN <<>> ELSE SplitOn(s, PathListSeparator)

-----------------------------------------------------------------------------
(* Filesystem entries *)

DirEnt(mode) == [k |-> "dir", t |-> <<>>, abs |-> FALSE, mode |-> mode, data |-> ""]
FileEnt(data, mode) == [k |-> "file", t |-> <<>>, abs |-> FALSE, mode |-> mode, data |-> data]
LinkEnt(abs, t) == [k |-> "link", t |-> t, abs |-> abs, mode |-> "0777", data |-> ""]

EmptyFs == [p \in {} |-> DirEnt("0755")]

Op(fn, op, a, b, ok) == [fn |-> fn, op |-> op, a |-> a, b |-> b, ok |-> ok]

-----------------------------------------------------------------------------
(* The tables of the source *)

mountPoint == <<"newroot">>

RootDirs == <<
    [name |-> <<"bin">>, mode |-> "0775"],
    [name |-> <<"sbin">>, mode |-> "0755"],
    [name |-> <<"usr">>, mode |-> "0755"],
    [name |-> <<"usr", "bin">>, mode |-> "0755"] >>

RootFiles == <<
    [src |-> <<"init">>, dst |-> <<"usr", "bin", "goes">>],
    [src |-> <<"usr", "bin", "gdbserver">>, dst |-> <<"usr", "bin", "gdbserver">>] >>

RootLinks == <<
    [src |-> <<"..", "usr", "bin", "goes">>, dst |-> <<"sbin", "init">>] >>

VirtualFileSystems == <<
    [src |-> <<"run">>, dst |-> <<"run">>, mode |-> "0755"],
    [src |-> <<"sys">>, dst |-> <<"sysfs">>, mode |-> "0555"],
    [src |-> <<"proc">>, dst |-> <<"proc">>, mode |-> "0555"],
    [src |-> <<"dev">>, dst |-> <<"dev">>, mode |-> "0755"] >>

UnlinkFiles == <<
    <<"usr", "bin", "gdbserver">>,
    <<"init">>,
    <<"bin", "goes">> >>

RmdirDirs == <<
    <<"run">>, <<"sys">>, <<"proc">>, <<"dev">>,
    <<"usr", "bin">>, <<"usr">>, <<"bin">> >>

TargetDirs == <<
    [name |-> <<"root">>, mode |-> "0700"],
    [name |-> <<"tmp">>, mode |-> "01777"],
    [name |-> <<"var">>, mode |-> "0755"] >>

TargetLinks == <<
    [src |-> <<"..", "run">>, dst |-> <<"var", "run">>] >>

TargetVirtualFilesystems == <<
    [dir |-> <<"tmp">>, dev |-> "tmpfs", fstype |-> "tmpfs"] >>

sbininit == <<"sbin", "init">>

\* runSbinInit's steps before the stat of /sbin/init
SbinInitEnv == <<
    [op |-> "setenv", a |-> <<"PATH">>],
    [op |-> "setenv", a |-> <<"SHELL">>],
    [op |-> "chdir", a |-> <<"root">>],
    [op |-> "setenv", a |-> <<"HOME">>],
    [op |-> "setenv", a |-> <<"TERM">>] >>

\* the file names the installer gives its requests, by position
ReqNames == <<"kernel", "initramfs", "fdt">>

-----------------------------------------------------------------------------
(* The images the process can start from *)

GoesData == "goes-initrd"

RamdiskBase ==
    (<<"init">> :> FileEnt(GoesData, "0755")) @@
    (<<"bin">> :> DirEnt("0755")) @@
    (<<"usr">> :> DirEnt("0755")) @@
    (<<"usr", "bin">> :> DirEnt("0755")) @@
    (<<"usr", "bin", "gdbserver">> :> FileEnt("gdbserver-initrd", "0755")) @@
    (<<"dev">> :> DirEnt("0755")) @@
    (<<"proc">> :> DirEnt("0555")) @@
    (<<"sys">> :> DirEnt("0555")) @@
    (<<"run">> :> DirEnt("0755")) @@
    EmptyFs

RamdiskImages ==
    LET \* a ramdisk that also holds the staging directory, /bin/goes, /usr/bin/goes
        \* and /sbin/init
        RamdiskRich ==
            (<<"newroot">> :> DirEnt("0755")) @@
            (<<"bin", "goes">> :> FileEnt(GoesData, "0755")) @@
            (<<"usr", "bin", "goes">> :> FileEnt(GoesData, "0755")) @@
            (<<"sbin">> :> DirEnt("0755")) @@
            (<<"sbin", "init">> :> LinkEnt(FALSE, <<"..", "usr", "bin", "goes">>)) @@
            RamdiskBase
    IN
        {RamdiskBase, RamdiskRich}

\* a goesroot device that was pivoted to before
TargetFull ==
    (<<"bin">> :> DirEnt("0775")) @@
    (<<"sbin">> :> DirEnt("0755")) @@
    (<<"usr">> :> DirEnt("0755")) @@
    (<<"usr", "bin">> :> DirEnt("0755")) @@
    (<<"usr", "bin", "goes">> :> FileEnt("goes-installed", "0755")) @@
    (<<"usr", "bin", "gdbserver">> :> FileEnt("gdbserver-installed", "0755")) @@
    (<<"sbin", "init">> :> LinkEnt(FALSE, <<"..", "usr", "bin", "goes">>)) @@
    (<<"run">> :> DirEnt("0755")) @@
    (<<"sysfs">> :> DirEnt("0555")) @@
    (<<"proc">> :> DirEnt("0555")) @@
    (<<"dev">> :> DirEnt("0755")) @@
    (<<"root">> :> DirEnt("0700")) @@
    (<<"tmp">> :> DirEnt("01777")) @@
    (<<"var">> :> DirEnt("0755")) @@
    (<<"var", "run">> :> LinkEnt(FALSE, <<"..", "run">>)) @@
    EmptyFs

TargetImages == {EmptyFs, TargetFull}

\* the mounts the bootstrapper leaves behind
BootMounts == {
    [fs |-> "devtmpfs", at |-> <<"dev">>],
    [fs |-> "devpts", at |-> <<"dev", "pts">>],
    [fs |-> "proc", at |-> <<"proc">>],
    [fs |-> "sysfs", at |-> <<"sys">>],
    [fs |-> "tmpfs", at |-> <<"run">>] }

GoesValues == {"", "overwrite"}

Pids == {1, 2}

-----------------------------------------------------------------------------
(* The namespace the process sees *)

RootMounts == {m \in mounts : m.fs = "root"}

\* the filesystem and the path in it that an absolute path names
Lookup(p) ==
    IF chrooted THEN <<"new", p>>
    ELSE IF \E m \in RootMounts : m.at # <<>> /\ IsPrefix(m.at, p)
         THEN LET m == CHOOSE n \in RootMounts : n.at # <<>> /\ IsPrefix(n.at, p)
              IN  <<"new", SubSeq(p, Len(m.at) + 1, Len(p))>>
         ELSE <<"old", p>>

Fs(which) == IF which = "new" THEN fsNew ELSE fsOld

Present(p) == LET l == Lookup(p) IN l[2] = <<>> \/ l[2] \in DOMAIN Fs(l[1])

Entry(p) == LET l == Lookup(p) IN Fs(l[1])[l[2]]

\* os.Stat follows a symbolic link: "ok" or "notexist"
Stat(p) ==
    IF ~Present(p) THEN "notexist"
    ELSE IF Lookup(p)[2] # <<>> /\ Entry(p).k = "link"
         THEN LET e == Entry(p)
                  tgt == IF e.abs THEN e.t ELSE Clean(Dir(p) \o e.t)
              IN  IF Present(tgt) THEN "ok" ELSE "notexist"
         ELSE "ok"

\* a new entry can be made at p: nothing is there and its directory is
CanCreate(p) == ~Present(p) /\ Present(Dir(p))

FS == [old |-> fsOld, new |-> fsNew]

EntryIn(f, p) == LET l == Lookup(p) IN f[l[1]][l[2]]

\* the pair of filesystems f after entry e is written at p
PutIn(f, p, e) ==
    LET l == Lookup(p)
    IN  [old |-> IF l[1] = "old" THEN (l[2] :> e) @@ f.old ELSE f.old,
         new |-> IF l[1] = "new" THEN (l[2] :> e) @@ f.new ELSE f.new]

Without(f, p) == [q \in DOMAIN f \ {p} |-> f[q]]

\* the pair of filesystems f after the entry at p is removed
RemoveIn(f, p) ==
    LET l == Lookup(p)
    IN  [old |-> IF l[1] = "old" THEN Without(f.old, l[2]) ELSE f.old,
         new |-> IF l[1] = "new" THEN Without(f.new, l[2]) ELSE f.new]

MountedAt(p) == \E m \in mounts : m.at = p

\* MS_MOVE: the mount at from, and every mount below it, goes to to
MoveMount(from, to) ==
    {IF IsPrefix(from, m.at)
     THEN [fs |-> m.fs, at |-> to \o SubSeq(m.at, Len(from) + 1, Len(m.at))]
     ELSE m : m \in mounts}

-----------------------------------------------------------------------------
(* The state after construction: the bootstrapper has run, Main is entered *)

Init ==
    LET GoesRootValues == {
            <<>>,
            <<"/dev/sda1">>,
            <<"/dev/sda1", ":", "/etc/boot.conf">>,
            <<"/dev/sda1", ",", "/etc/boot.conf">> }
    IN
        LET GoesInstallerValues == {
                <<>>,
                <<",", "http://x/i">>,
                <<"http://x/k">>,
                <<"http://x/k", ",", "http://x/i">>,
                <<"http://x/k", ",", ",", "http://x/f">>,
                <<"http://x/k", ",", "http://x/i", ",", "http://x/f">> }
        IN
            /\ env \in [goesroot : GoesRootValues,
                        goesinstaller : GoesInstallerValues,
                        goes : GoesValues]
            /\ pc = "Hook"
            /\ i = 0
            /\ panicking = FALSE
            /\ root = <<>>
            /\ script = <<>>
            /\ fsOld \in RamdiskImages
            /\ fsNew = EmptyFs
            /\ mounts = BootMounts
            /\ cwd = <<"old", <<>>>>
            /\ chrooted = FALSE
            /\ ops = <<>>
            /\ reqs = <<>>
            /\ inst = "none"
            /\ shell = [n |-> 0, last |-> "none", printed |-> FALSE]
            /\ flag = {} /\ fstab = <<>> /\ goroutines = <<>> /\ rchan = <<>> /\ complete = 0
            /\ parm = <<>> /\ kvpub = <<>> /\ spub = <<>> /\ eventPool = {} /\ events = <<>>
            /\ eventq = <<>> /\ menu = <<>>

-----------------------------------------------------------------------------
(* Steps shared by the actions *)

Log(o) == ops' = Append(ops, o)

LogAll(os) == ops' = ops \o os

SetFs(f) == fsOld' = f.old /\ fsNew' = f.new

\* panic(...) in Main or a callee: control passes to Main's deferred function
Raise == pc' = "defer.outer" /\ panicking' = TRUE /\ i' = 0

\* the next iteration of a table loop, or the step after the loop
Advance(table, here, next) ==
    IF i < Len(table) THEN pc' = here /\ i' = i + 1
    ELSE pc' = next /\ i' = 1

Root(goesRoot) == IF Len(goesRoot) >= 1 /\ Len(goesRoot[1]) > 0 THEN goesRoot[1] ELSE <<>>

Script(goesRoot) == IF Len(goesRoot) >= 2 /\ Len(goesRoot[2]) > 0 THEN goesRoot[2] ELSE <<>>

-----------------------------------------------------------------------------
(* Main up to the pivot *)

\* MainHook with the error returned by Hook dropped
MainHookIgnoresError ==
    /\ pc = "Hook"
    /\ \E r \in {"nil", "err", "panic"} :
        /\ Log(Op("Main", "Hook", <<>>, <<>>, r = "nil"))
        /\ IF r # "panic"
           THEN LET goesRoot == SplitList(env.goesroot)
                IN  /\ root' = Root(goesRoot)
                    /\ script' = Script(goesRoot)
                    /\ pc' = IF Len(Root(goesRoot)) > 0 THEN "pivotRoot" ELSE "makeTargetDirs"
                    /\ i' = 1
                    /\ UNCHANGED panicking
           ELSE Raise /\ UNCHANGED <<root, script>>
    /\ UNCHANGED <<env, fsOld, fsNew, mounts, cwd, chrooted, reqs, inst, shell>>
    /\ UNCHANGED <<mountVars, parm, vnetVars, menu>>

\* err := Hook(); panic on error; root and script from goesroot
MainHook ==
    /\ pc = "Hook"
    /\ \E r \in {"nil", "err", "panic"} :
        /\ Log(Op("Main", "Hook", <<>>, <<>>, r = "nil"))
        /\ IF r = "nil"
           THEN LET goesRoot == SplitList(env.goesroot)
                IN  /\ root' = Root(goesRoot)
                    /\ script' = Script(goesRoot)
                    /\ pc' = IF Len(Root(goesRoot)) > 0 THEN "pivotRoot" ELSE "makeTargetDirs"
                    /\ i' = 1
                    /\ UNCHANGED panicking
           ELSE Raise /\ UNCHANGED <<root, script>>
    /\ UNCHANGED <<env, fsOld, fsNew, mounts, cwd, chrooted, reqs, inst, shell>>
    /\ UNCHANGED <<mountVars, parm, vnetVars, menu>>

-----------------------------------------------------------------------------
(* pivotRoot *)

\* os.Stat(mountPoint); os.Mkdir(mountPoint, 0755) when it does not exist
PivotMkdir ==
    /\ pc = "pivotRoot"
    /\ IF Stat(mountPoint) = "notexist"
       THEN \E fault \in BOOLEAN :
              LET ok == ~fault /\ CanCreate(mountPoint)
              IN  /\ Log(Op("pivotRoot", "mkdir", mountPoint, <<>>, ok))
                  /\ IF ok
                     THEN /\ SetFs(PutIn(FS, mountPoint, DirEnt("0755")))
                          /\ pc' = "pivotRoot.mount"
                          /\ UNCHANGED <<panicking, i>>
                     ELSE Raise /\ UNCHANGED <<fsOld, fsNew>>
       ELSE /\ pc' = "pivotRoot.mount"
            /\ UNCHANGED <<ops, fsOld, fsNew, panicking, i>>
    /\ UNCHANGED <<env, root, script, mounts, cwd, chrooted, reqs, inst, shell>>
    /\ UNCHANGED <<mountVars, parm, vnetVars, menu>>

\* goes.Main("mount", root, mountPoint)
PivotMount ==
    /\ pc = "pivotRoot.mount"
    /\ \E ok \in BOOLEAN :
        /\ Log(Op("pivotRoot", "mount", mountPoint, root, ok))
        /\ IF ok
           THEN /\ fsNew' \in TargetImages
                /\ mounts' = mounts \cup {[fs |-> "root", at |-> mountPoint]}
                /\ pc' = "pivotRoot.script"
                /\ UNCHANGED <<panicking, i>>
           ELSE Raise /\ UNCHANGED <<fsNew, mounts>>
    /\ UNCHANGED <<env, root, script, fsOld, cwd, chrooted, reqs, inst, shell>>
    /\ UNCHANGED <<mountVars, parm, vnetVars, menu>>

\* PivotScript with the script's error dropped
PivotScriptIgnoresError ==
    /\ pc = "pivotRoot.script"
    /\ IF Len(script) > 0
       THEN \E ok \in BOOLEAN : Log(Op("pivotRoot", "source", script, <<>>, ok))
       ELSE UNCHANGED ops
    /\ pc' = "makeRootDirs"
    /\ i' = 1
    /\ UNCHANGED <<env, panicking, root, script, fsOld, fsNew, mounts, cwd, chrooted, reqs,
                   inst, shell>>
    /\ UNCHANGED <<mountVars, parm, vnetVars, menu>>

\* goes.Main("source", script) when a script is configured
PivotScript ==
    /\ pc = "pivotRoot.script"
    /\ IF Len(script) > 0
       THEN \E ok \in BOOLEAN :
              /\ Log(Op("pivotRoot", "source", script, <<>>, ok))
              /\ IF ok
                 THEN pc' = "makeRootDirs" /\ i' = 1 /\ UNCHANGED panicking
                 ELSE Raise
       ELSE pc' = "makeRootDirs" /\ i' = 1 /\ UNCHANGED <<ops, panicking>>
    /\ UNCHANGED <<env, root, script, fsOld, fsNew, mounts, cwd, chrooted, reqs, inst, shell>>
    /\ UNCHANGED <<mountVars, parm, vnetVars, menu>>

\* one iteration of makeRootDirs' loop
MakeRootDirs ==
    /\ pc = "makeRootDirs"
    /\ LET dir == RootDirs[i]
           path == mountPoint \o dir.name
       IN  IF Stat(path) = "notexist"
           THEN \E fault \in BOOLEAN :
                  LET ok == ~fault /\ CanCreate(path)
                  IN  /\ Log(Op("makeRootDirs", "mkdir", path, <<>>, ok))
                      /\ IF ok
                         THEN /\ SetFs(PutIn(FS, path, DirEnt(dir.mode)))
                              /\ Advance(RootDirs, "makeRootDirs", "makeRootFiles")
                              /\ UNCHANGED panicking
                         ELSE Raise /\ UNCHANGED <<fsOld, fsNew>>
           ELSE /\ Advance(RootDirs, "makeRootDirs", "makeRootFiles")
                /\ UNCHANGED <<ops, fsOld, fsNew, panicking>>
    /\ UNCHANGED <<env, root, script, mounts, cwd, chrooted, reqs, inst, shell>>
    /\ UNCHANGED <<mountVars, parm, vnetVars, menu>>

\* MakeRootFiles copying whether or not the destination exists
MakeRootFilesAlways ==
    /\ pc = "makeRootFiles"
    /\ LET cp == RootFiles[i]
           dst == mountPoint \o cp.dst
       IN  IF TRUE
           THEN \E fault \in {"none", "open", "create", "copy", "chmod"} :
                  LET openOk == fault # "open" /\ Stat(cp.src) = "ok"
                      createOk == /\ openOk
                                  /\ fault # "create"
                                  /\ Present(Dir(dst))
                                  /\ (Present(dst) => Entry(dst).k = "file")
                      copyOk == createOk /\ fault # "copy"
                      \* os.Chmod(cp.dst, 0755): the path without mountPoint
                      chmodOk == copyOk /\ fault # "chmod" /\ Stat(cp.dst) = "ok"
                      mode == IF Present(dst) THEN Entry(dst).mode ELSE "0666"
                      created == PutIn(FS, dst, FileEnt("", mode))
                      copied == PutIn(FS, dst, FileEnt(Entry(cp.src).data, mode))
                      chmoded == PutIn(copied, cp.dst,
                                       [EntryIn(copied, cp.dst) EXCEPT !.mode = "0755"])
                  IN  /\ LogAll(<<Op("makeRootFiles", "open", cp.src, <<>>, openOk)>>
                            \o (IF openOk
                                THEN <<Op("makeRootFiles", "create", dst, <<>>, createOk)>>
                                ELSE <<>>)
                            \o (IF createOk
                                THEN <<Op("makeRootFiles", "copy", dst, cp.src, copyOk)>>
                                ELSE <<>>)
                            \o (IF copyOk
                                THEN <<Op("makeRootFiles", "chmod", cp.dst, <<>>, chmodOk)>>
                                ELSE <<>>))
                      /\ SetFs(IF chmodOk THEN chmoded
                               ELSE IF copyOk THEN copied
                               ELSE IF createOk THEN created
                               ELSE FS)
                      /\ IF chmodOk
                         THEN /\ Advance(RootFiles, "makeRootFiles", "makeRootLinks")
                              /\ UNCHANGED panicking
                         ELSE Raise
           ELSE /\ Advance(RootFiles, "makeRootFiles", "makeRootLinks")
                /\ UNCHANGED <<ops, fsOld, fsNew, panicking>>
    /\ UNCHANGED <<env, root, script, mounts, cwd, chrooted, reqs, inst, shell>>
    /\ UNCHANGED <<mountVars, parm, vnetVars, menu>>

\* one iteration of makeRootFiles' loop: open, create, copy, chmod
MakeRootFiles ==
    /\ pc = "makeRootFiles"
    /\ LET cp == RootFiles[i]
           dst == mountPoint \o cp.dst
       IN  IF Stat(dst) = "notexist" \/ env.goes = "overwrite"
           THEN \E fault \in {"none", "open", "create", "copy", "chmod"} :
                  LET openOk == fault # "open" /\ Stat(cp.src) = "ok"
                      createOk == /\ openOk
                                  /\ fault # "create"
                                  /\ Present(Dir(dst))
                                  /\ (Present(dst) => Entry(dst).k = "file")
                      copyOk == createOk /\ fault # "copy"
                      \* os.Chmod(cp.dst, 0755): the path without mountPoint
                      chmodOk == copyOk /\ fault # "chmod" /\ Stat(cp.dst) = "ok"
                      mode == IF Present(dst) THEN Entry(dst).mode ELSE "0666"
                      created == PutIn(FS, dst, FileEnt("", mode))
                      copied == PutIn(FS, dst, FileEnt(Entry(cp.src).data, mode))
                      chmoded == PutIn(copied, cp.dst,
                                       [EntryIn(copied, cp.dst) EXCEPT !.mode = "0755"])
                  IN  /\ LogAll(<<Op("makeRootFiles", "open", cp.src, <<>>, openOk)>>
                            \o (IF openOk
                                THEN <<Op("makeRootFiles", "create", dst, <<>>, createOk)>>
                                ELSE <<>>)
                            \o (IF createOk
                                THEN <<Op("makeRootFiles", "copy", dst, cp.src, copyOk)>>
                                ELSE <<>>)
                            \o (IF copyOk
                                THEN <<Op("makeRootFiles", "chmod", cp.dst, <<>>, chmodOk)>>
                                ELSE <<>>))
                      /\ SetFs(IF chmodOk THEN chmoded
                               ELSE IF copyOk THEN copied
                               ELSE IF createOk THEN created
                               ELSE FS)
                      /\ IF chmodOk
                         THEN /\ Advance(RootFiles, "makeRootFiles", "makeRootLinks")
                              /\ UNCHANGED panicking
                         ELSE Raise
           ELSE /\ Advance(RootFiles, "makeRootFiles", "makeRootLinks")
                /\ UNCHANGED <<ops, fsOld, fsNew, panicking>>
    /\ UNCHANGED <<env, root, script, mounts, cwd, chrooted, reqs, inst, shell>>
    /\ UNCHANGED <<mountVars, parm, vnetVars, menu>>

\* MakeRootLinks with a failed symlink logged and passed over
MakeRootLinksBestEffort ==
    /\ pc = "makeRootLinks"
    /\ LET ln == RootLinks[i]
           path == mountPoint \o ln.dst
       IN  IF Stat(path) = "notexist"
           THEN \E fault \in BOOLEAN :
                  LET ok == ~fault /\ CanCreate(path)
                  IN  /\ Log(Op("makeRootLinks", "symlink", path, ln.src, ok))
                      /\ SetFs(IF ok THEN PutIn(FS, path, LinkEnt(FALSE, ln.src)) ELSE FS)
                      /\ Advance(RootLinks, "makeRootLinks", "moveVirtualFileSystems")
                      /\ UNCHANGED panicking
           ELSE /\ Advance(RootLinks, "makeRootLinks", "moveVirtualFileSystems")
                /\ UNCHANGED <<ops, fsOld, fsNew, panicking>>
    /\ UNCHANGED <<env, root, script, mounts, cwd, chrooted, reqs, inst, shell>>
    /\ UNCHANGED <<mountVars, parm, vnetVars, menu>>

\* one iteration of makeRootLinks' loop
MakeRootLinks ==
    /\ pc = "makeRootLinks"
    /\ LET ln == RootLinks[i]
           path == mountPoint \o ln.dst
       IN  IF Stat(path) = "notexist"
           THEN \E fault \in BOOLEAN :
                  LET ok == ~fault /\ CanCreate(path)
                  IN  /\ Log(Op("makeRootLinks", "symlink", path, ln.src, ok))
                      /\ IF ok
                         THEN /\ SetFs(PutIn(FS, path, LinkEnt(FALSE, ln.src)))
                              /\ Advance(RootLinks, "makeRootLinks", "moveVirtualFileSystems")
                              /\ UNCHANGED panicking
                         ELSE Raise /\ UNCHANGED <<fsOld, fsNew>>
           ELSE /\ Advance(RootLinks, "makeRootLinks", "moveVirtualFileSystems")
                /\ UNCHANGED <<ops, fsOld, fsNew, panicking>>
    /\ UNCHANGED <<env, root, script, mounts, cwd, chrooted, reqs, inst, shell>>
    /\ UNCHANGED <<mountVars, parm, vnetVars, menu>>

\* MoveVirtualFileSystems mounting the filesystem afresh at the destination
\* instead of moving the mount
MoveVirtualFileSystemsRemount ==
    /\ pc = "moveVirtualFileSystems"
    /\ LET mv == VirtualFileSystems[i]
           dst == mountPoint \o mv.dst
           absent == Stat(dst) = "notexist"
       IN  \E fault \in {"none", "mkdir", "mount"} :
             LET mkdirOk == fault # "mkdir" /\ CanCreate(dst)
                 made == IF absent /\ mkdirOk THEN PutIn(FS, dst, DirEnt(mv.mode)) ELSE FS
                 \* MS_MOVE needs a mount at the source and a directory to move it to
                 mountOk == /\ absent => mkdirOk
                            /\ fault # "mount"
                            /\ MountedAt(mv.src)
             IN  /\ absent \/ fault # "mkdir"
                 /\ LogAll((IF absent
                            THEN <<Op("moveVirtualFileSystems", "mkdir", dst, <<>>, mkdirOk)>>
                            ELSE <<>>)
                        \o (IF absent => mkdirOk
                            THEN <<Op("moveVirtualFileSystems", "move", dst, mv.src, mountOk)>>
                            ELSE <<>>))
                 /\ SetFs(made)
                 /\ IF mountOk
                    THEN /\ mounts' = mounts \cup {[fs |-> (CHOOSE n \in mounts : n.at = mv.src).fs,
                                                   at |-> dst]}
                         /\ Advance(VirtualFileSystems, "moveVirtualFileSystems",
                                    "pivotRoot.chdir")
                         /\ UNCHANGED panicking
                    ELSE Raise /\ UNCHANGED mounts
    /\ UNCHANGED <<env, root, script, cwd, chrooted, reqs, inst, shell>>
    /\ UNCHANGED <<mountVars, parm, vnetVars, menu>>

\* one iteration of moveVirtualFileSystems' loop: mkdir when absent, then move
MoveVirtualFileSystems ==
    /\ pc = "moveVirtualFileSystems"
    /\ LET mv == VirtualFileSystems[i]
           dst == mountPoint \o mv.dst
           absent == Stat(dst) = "notexist"
       IN  \E fault \in {"none", "mkdir", "mount"} :
             LET mkdirOk == fault # "mkdir" /\ CanCreate(dst)
                 made == IF absent /\ mkdirOk THEN PutIn(FS, dst, DirEnt(mv.mode)) ELSE FS
                 \* MS_MOVE needs a mount at the source and a directory to move it to
                 mountOk == /\ absent => mkdirOk
                            /\ fault # "mount"
                            /\ MountedAt(mv.src)
             IN  /\ absent \/ fault # "mkdir"
                 /\ LogAll((IF absent
                            THEN <<Op("moveVirtualFileSystems", "mkdir", dst, <<>>, mkdirOk)>>
                            ELSE <<>>)
                        \o (IF absent => mkdirOk
                            THEN <<Op("moveVirtualFileSystems", "move", dst, mv.src, mountOk)>>
                            ELSE <<>>))
                 /\ SetFs(made)
                 /\ IF mountOk
                    THEN /\ mounts' = MoveMount(mv.src, dst)
                         /\ Advance(VirtualFileSystems, "moveVirtualFileSystems",
                                    "pivotRoot.chdir")
                         /\ UNCHANGED panicking
                    ELSE Raise /\ UNCHANGED mounts
    /\ UNCHANGED <<env, root, script, cwd, chrooted, reqs, inst, shell>>
    /\ UNCHANGED <<mountVars, parm, vnetVars, menu>>

\* PivotChdir with the error of os.Chdir dropped
PivotChdirIgnored ==
    /\ pc = "pivotRoot.chdir"
    /\ \E fault \in BOOLEAN :
        LET ok == ~fault /\ Stat(mountPoint) = "ok"
        IN  /\ Log(Op("pivotRoot", "chdir", mountPoint, <<>>, ok))
            /\ cwd' = IF ok THEN Lookup(mountPoint) ELSE cwd
            /\ pc' = "unlinkRootFiles"
            /\ i' = 1
            /\ UNCHANGED panicking
    /\ UNCHANGED <<env, root, script, fsOld, fsNew, mounts, chrooted, reqs, inst, shell>>
    /\ UNCHANGED <<mountVars, parm, vnetVars, menu>>

\* os.Chdir(mountPoint)
PivotChdir ==
    /\ pc = "pivotRoot.chdir"
    /\ \E fault \in BOOLEAN :
        LET ok == ~fault /\ Stat(mountPoint) = "ok"
        IN  /\ Log(Op("pivotRoot", "chdir", mountPoint, <<>>, ok))
            /\ IF ok
               THEN /\ cwd' = Lookup(mountPoint)
                    /\ pc' = "unlinkRootFiles"
                    /\ i' = 1
                    /\ UNCHANGED panicking
               ELSE Raise /\ UNCHANGED cwd
    /\ UNCHANGED <<env, root, script, fsOld, fsNew, mounts, chrooted, reqs,
                   inst, shell>>
    /\ UNCHANGED <<mountVars, parm, vnetVars, menu>>

\* UnlinkRootFiles with a failed Unlink made fatal
UnlinkRootFilesFatal ==
    /\ pc = "unlinkRootFiles"
    /\ LET fn == UnlinkFiles[i]
       IN  LET ok == Present(fn) /\ Entry(fn).k # "dir"
             IN  /\ Log(Op("unlinkRootFiles", "unlink", fn, <<>>, ok))
                 /\ IF ok
                    THEN /\ SetFs(RemoveIn(FS, fn))
                         /\ Advance(UnlinkFiles, "unlinkRootFiles", "rmdirRootDirs")
                         /\ UNCHANGED panicking
                    ELSE Raise /\ UNCHANGED <<fsOld, fsNew>>
    /\ UNCHANGED <<env, root, script, mounts, cwd, chrooted, reqs, inst, shell>>
    /\ UNCHANGED <<mountVars, parm, vnetVars, menu>>

\* one iteration of unlinkRootFiles' loop; the result of Unlink is dropped
UnlinkRootFiles ==
    /\ pc = "unlinkRootFiles"
    /\ LET fn == UnlinkFiles[i]
       IN  LET ok == Present(fn) /\ Entry(fn).k # "dir"
             IN  /\ Log(Op("unlinkRootFiles", "unlink", fn, <<>>, ok))
                 /\ SetFs(IF ok THEN RemoveIn(FS, fn) ELSE FS)
                 /\ Advance(UnlinkFiles, "unlinkRootFiles", "rmdirRootDirs")
    /\ UNCHANGED <<env, panicking, root, script, mounts, cwd, chrooted, reqs, inst,
                   shell>>
    /\ UNCHANGED <<mountVars, parm, vnetVars, menu>>

\* one iteration of rmdirRootDirs' loop; the result of Rmdir is dropped
RmdirRootDirs ==
    LET HasChild(p) ==
            LET l == Lookup(p)
            IN  \E q \in DOMAIN Fs(l[1]) : Len(q) > Len(l[2]) /\ IsPrefix(l[2], q)
    IN
        /\ pc = "rmdirRootDirs"
        /\ LET dir == RmdirDirs[i]
           IN  LET ok == /\ Present(dir)
                           /\ Entry(dir).k = "dir"
                           /\ ~HasChild(dir)
                           /\ ~MountedAt(dir)
                 IN  /\ Log(Op("rmdirRootDirs", "rmdir", dir, <<>>, ok))
                     /\ SetFs(IF ok THEN RemoveIn(FS, dir) ELSE FS)
                     /\ Advance(RmdirDirs, "rmdirRootDirs", "pivotRoot.move")
        /\ UNCHANGED <<env, panicking, root, script, mounts, cwd, chrooted, reqs, inst,
                       shell>>
        /\ UNCHANGED <<mountVars, parm, vnetVars, menu>>

\* PivotMoveRoot with the error of the move dropped
PivotMoveRootIgnored ==
    /\ pc = "pivotRoot.move"
    /\ \E fault \in BOOLEAN :
        LET ok == ~fault /\ MountedAt(mountPoint)
        IN  /\ Log(Op("pivotRoot", "moveroot", <<>>, mountPoint, ok))
            /\ mounts' = IF ok THEN MoveMount(mountPoint, <<>>) ELSE mounts
            /\ pc' = "pivotRoot.chroot"
            /\ UNCHANGED <<panicking, i>>
    /\ UNCHANGED <<env, root, script, fsOld, fsNew, cwd, chrooted, reqs, inst, shell>>
    /\ UNCHANGED <<mountVars, parm, vnetVars, menu>>

\* syscall.Mount(mountPoint, "/", "", syscall.MS_MOVE, "")
PivotMoveRoot ==
    /\ pc = "pivotRoot.move"
    /\ \E fault \in BOOLEAN :
        LET ok == ~fault /\ MountedAt(mountPoint)
        IN  /\ Log(Op("pivotRoot", "moveroot", <<>>, mountPoint, ok))
            /\ IF ok
               THEN /\ mounts' = MoveMount(mountPoint, <<>>)
                    /\ pc' = "pivotRoot.chroot"
                    /\ UNCHANGED <<panicking, i>>
               ELSE Raise /\ UNCHANGED mounts
    /\ UNCHANGED <<env, root, script, fsOld, fsNew, cwd, chrooted, reqs, inst,
                   shell>>
    /\ UNCHANGED <<mountVars, parm, vnetVars, menu>>

\* PivotChroot with the error of syscall.Chroot dropped
PivotChrootIgnored ==
    /\ pc = "pivotRoot.chroot"
    /\ \E ok \in BOOLEAN :
        /\ Log(Op("pivotRoot", "chroot", <<".">>, <<>>, ok))
        /\ chrooted' = IF ok THEN cwd = <<"new", <<>>>> ELSE chrooted
        /\ pc' = "makeTargetDirs"
        /\ i' = 1
        /\ UNCHANGED panicking
    /\ UNCHANGED <<env, root, script, fsOld, fsNew, mounts, cwd, reqs, inst,
                   shell>>
    /\ UNCHANGED <<mountVars, parm, vnetVars, menu>>

\* syscall.Chroot(".")
PivotChroot ==
    /\ pc = "pivotRoot.chroot"
    /\ \E ok \in BOOLEAN :
        /\ Log(Op("pivotRoot", "chroot", <<".">>, <<>>, ok))
        /\ IF ok
           THEN /\ chrooted' = (cwd = <<"new", <<>>>>)
                /\ pc' = "makeTargetDirs"
                /\ i' = 1
                /\ UNCHANGED panicking
           ELSE Raise /\ UNCHANGED chrooted
    /\ UNCHANGED <<env, root, script, fsOld, fsNew, mounts, cwd, reqs, inst,
                   shell>>
    /\ UNCHANGED <<mountVars, parm, vnetVars, menu>>

-----------------------------------------------------------------------------
(* The finalizer *)

\* one iteration of makeTargetDirs' loop
MakeTargetDirs ==
    /\ pc = "makeTargetDirs"
    /\ LET dir == TargetDirs[i]
       IN  IF Stat(dir.name) = "notexist"
           THEN \E fault \in BOOLEAN :
                  LET ok == ~fault /\ CanCreate(dir.name)
                  IN  /\ Log(Op("makeTargetDirs", "mkdir", dir.name, <<>>, ok))
                      /\ IF ok
                         THEN /\ SetFs(PutIn(FS, dir.name, DirEnt(dir.mode)))
                              /\ Advance(TargetDirs, "makeTargetDirs", "makeTargetLinks")
                              /\ UNCHANGED panicking
                         ELSE Raise /\ UNCHANGED <<fsOld, fsNew>>
           ELSE /\ Advance(TargetDirs, "makeTargetDirs", "makeTargetLinks")
                /\ UNCHANGED <<ops, fsOld, fsNew, panicking>>
    /\ UNCHANGED <<env, root, script, mounts, cwd, chrooted, reqs, inst, shell>>
    /\ UNCHANGED <<mountVars, parm, vnetVars, menu>>

\* one iteration of makeTargetLinks' loop
MakeTargetLinks ==
    /\ pc = "makeTargetLinks"
    /\ LET ln == TargetLinks[i]
       IN  IF Stat(ln.dst) = "notexist"
           THEN \E fault \in BOOLEAN :
                  LET ok == ~fault /\ CanCreate(ln.dst)
                  IN  /\ Log(Op("makeTargetLinks", "symlink", ln.dst, ln.src, ok))
                      /\ IF ok
                         THEN /\ SetFs(PutIn(FS, ln.dst, LinkEnt(FALSE, ln.src)))
                              /\ Advance(TargetLinks, "makeTargetLinks",
                                         "mountTargetVirtualFilesystems")
                              /\ UNCHANGED panicking
                         ELSE Raise /\ UNCHANGED <<fsOld, fsNew>>
           ELSE /\ Advance(TargetLinks, "makeTargetLinks", "mountTargetVirtualFilesystems")
                /\ UNCHANGED <<ops, fsOld, fsNew, panicking>>
    /\ UNCHANGED <<env, root, script, mounts, cwd, chrooted, reqs, inst, shell>>
    /\ UNCHANGED <<mountVars, parm, vnetVars, menu>>

\* MountTargetVirtualFilesystems with a failed mount logged and passed over
MountTargetVirtualFilesystemsBestEffort ==
    /\ pc = "mountTargetVirtualFilesystems"
    /\ LET mnt == TargetVirtualFilesystems[i]
       IN  \E fault \in BOOLEAN :
             LET ok == ~fault /\ Stat(mnt.dir) = "ok"
             IN  /\ Log(Op("mountTargetVirtualFilesystems", "mount", mnt.dir,
                           <<mnt.dev>>, ok))
                 /\ mounts' = IF ok
                              THEN mounts \cup {[fs |-> mnt.fstype, at |-> mnt.dir]}
                              ELSE mounts
                 /\ Advance(TargetVirtualFilesystems,
                            "mountTargetVirtualFilesystems", "runSbinInit")
                 /\ UNCHANGED panicking
    /\ UNCHANGED <<env, root, script, fsOld, fsNew, cwd, chrooted, reqs, inst, shell>>
    /\ UNCHANGED <<mountVars, parm, vnetVars, menu>>

\* one iteration of mountTargetVirtualFilesystems' loop
MountTargetVirtualFilesystems ==
    /\ pc = "mountTargetVirtualFilesystems"
    /\ LET mnt == TargetVirtualFilesystems[i]
       IN  \E fault \in BOOLEAN :
             LET ok == ~fault /\ Stat(mnt.dir) = "ok"
             IN  /\ Log(Op("mountTargetVirtualFilesystems", "mount", mnt.dir,
                           <<mnt.dev>>, ok))
                 /\ IF ok
                    THEN /\ mounts' = mounts \cup {[fs |-> mnt.fstype, at |-> mnt.dir]}
                         /\ Advance(TargetVirtualFilesystems,
                                    "mountTargetVirtualFilesystems", "runSbinInit")
                         /\ UNCHANGED panicking
                    ELSE Raise /\ UNCHANGED mounts
    /\ UNCHANGED <<env, root, script, fsOld, fsNew, cwd, chrooted, reqs, inst,
                   shell>>
    /\ UNCHANGED <<mountVars, parm, vnetVars, menu>>

Executable(mode) == mode \in {"0755", "0775"}

\* the entry a path leads to, through a symbolic link if it is one
Resolved(p) ==
    LET e == Entry(p)
    IN  IF e.k = "link"
        THEN Entry(IF e.abs THEN e.t ELSE Clean(Dir(p) \o e.t))
        ELSE e

\* runSbinInit before the stat: Setenv PATH, SHELL, Chdir /root, Setenv HOME, TERM
RunSbinInitEnv ==
    /\ pc = "runSbinInit"
    /\ LET st == SbinInitEnv[i]
       IN  \E fault \in BOOLEAN, termSet \in BOOLEAN :
             LET skip == st.a = <<"TERM">> /\ termSet
                 ok == ~fault /\ (st.op = "chdir" => Stat(st.a) = "ok")
             IN  /\ skip => ~fault
                 /\ st.a = <<"TERM">> \/ ~termSet
                 /\ IF skip
                    THEN /\ Advance(SbinInitEnv, "runSbinInit", "runSbinInit.stat")
                         /\ UNCHANGED <<ops, cwd, panicking>>
                    ELSE /\ Log(Op("runSbinInit", st.op, st.a, <<>>, ok))
                         /\ IF ok
                            THEN /\ cwd' = IF st.op = "chdir" THEN Lookup(st.a) ELSE cwd
                                 /\ Advance(SbinInitEnv, "runSbinInit", "runSbinInit.stat")
                                 /\ UNCHANGED panicking
                            ELSE Raise /\ UNCHANGED cwd
    /\ UNCHANGED <<env, root, script, fsOld, fsNew, mounts, chrooted, reqs,
                   inst, shell>>
    /\ UNCHANGED <<mountVars, parm, vnetVars, menu>>

\* RunSbinInitExec returning to Main when syscall.Exec fails
RunSbinInitExecFallsThrough ==
    /\ pc = "runSbinInit.stat"
    /\ \E statErr \in BOOLEAN, fault \in BOOLEAN :
        LET exists == Stat(sbininit) = "ok"
            ok == ~fault /\ Executable(Resolved(sbininit).mode)
        IN  /\ fault => (~statErr /\ exists)
            /\ IF statErr
               THEN /\ Log(Op("runSbinInit", "stat", sbininit, <<>>, FALSE))
                    /\ Raise
               ELSE IF ~exists
               THEN /\ pc' = "start"
                    /\ UNCHANGED <<ops, panicking, i>>
               ELSE /\ Log(Op("runSbinInit", "exec", sbininit, <<>>, ok))
                    /\ pc' = IF ok THEN "execed" ELSE "start"
                    /\ UNCHANGED <<panicking, i>>
    /\ UNCHANGED <<env, root, script, fsOld, fsNew, mounts, cwd, chrooted, reqs, inst, shell>>
    /\ UNCHANGED <<mountVars, parm, vnetVars, menu>>

\* os.Stat(sbininit): return when it does not exist, panic on another error,
\* else syscall.Exec
RunSbinInitExec ==
    /\ pc = "runSbinInit.stat"
    /\ \E statErr \in BOOLEAN, fault \in BOOLEAN :
        LET exists == Stat(sbininit) = "ok"
            ok == ~fault /\ Executable(Resolved(sbininit).mode)
        IN  /\ fault => (~statErr /\ exists)
            /\ IF statErr
               THEN /\ Log(Op("runSbinInit", "stat", sbininit, <<>>, FALSE))
                    /\ Raise
               ELSE IF ~exists
               THEN /\ pc' = "start"
                    /\ UNCHANGED <<ops, panicking, i>>
               ELSE /\ Log(Op("runSbinInit", "exec", sbininit, <<>>, ok))
                    /\ IF ok
                       THEN pc' = "execed" /\ UNCHANGED <<panicking, i>>
                       ELSE Raise
    /\ UNCHANGED <<env, root, script, fsOld, fsNew, mounts, cwd, chrooted, reqs, inst, shell>>
    /\ UNCHANGED <<mountVars, parm, vnetVars, menu>>

-----------------------------------------------------------------------------
(* The start command, called last by Main *)

\* start's steps up to its shell loop: an error return, a panic, or all done;
\* with all done it returns nil unless os.Getpid() is 1
StartMain ==
    /\ pc = "start"
    /\ \E r \in {"ok", "err", "panic"}, pid \in Pids :
        /\ r # "ok" => pid = 1
        /\ Log(Op("Main", "start", <<>>, <<>>, r = "ok"))
        /\ CASE r = "panic" -> Raise
             [] r = "err" -> pc' = "defer.outer" /\ UNCHANGED <<panicking, i>>
             [] r = "ok" -> /\ pc' = IF pid = 1 THEN "start.loop" ELSE "defer.outer"
                            /\ UNCHANGED <<panicking, i>>
    /\ UNCHANGED <<env, root, script, fsOld, fsNew, mounts, cwd, chrooted, reqs, inst, shell>>
    /\ UNCHANGED <<mountVars, parm, vnetVars, menu>>

\* one iteration of start's loop: login when there is one, then cli
StartLoop ==
    /\ pc = "start.loop"
    /\ \E login \in BOOLEAN, loginErr \in BOOLEAN, r \in {"nil", "EOF", "err", "panic"} :
        /\ loginErr => login
        /\ IF loginErr
           THEN /\ shell' = [n |-> (shell.n + 1) % ShellWrap, last |-> "login",
                             printed |-> TRUE]
                /\ UNCHANGED <<pc, panicking, i>>
           ELSE /\ shell' = [n |-> (shell.n + 1) % ShellWrap, last |-> r,
                             printed |-> r = "err"]
                /\ CASE r = "panic" -> Raise
                     [] r = "err" -> pc' = "start.blocked" /\ UNCHANGED <<panicking, i>>
                     [] OTHER -> UNCHANGED <<pc, panicking, i>>
    /\ UNCHANGED <<env, root, script, fsOld, fsNew, mounts, cwd, chrooted, ops, reqs, inst>>
    /\ UNCHANGED <<mountVars, parm, vnetVars, menu>>

-----------------------------------------------------------------------------
(* Main's deferred function and the installer *)

\* DeferOuter with Main's body entered again when no installer is configured
DeferOuterRetries ==
    /\ pc = "defer.outer"
    /\ Log(Op("Main", "recover", <<>>, <<>>, panicking))
    /\ panicking' = FALSE
    /\ pc' = IF Len(env.goesinstaller) > 0 THEN "installer"
             ELSE IF panicking THEN "Hook" ELSE "defer.inner"
    /\ UNCHANGED <<env, i, root, script, fsOld, fsNew, mounts, cwd, chrooted, reqs, inst, shell>>
    /\ UNCHANGED <<mountVars, parm, vnetVars, menu>>

\* the outer deferred function up to the installer call: recover, print
DeferOuter ==
    /\ pc = "defer.outer"
    /\ Log(Op("Main", "recover", <<>>, <<>>, panicking))
    /\ panicking' = FALSE
    /\ pc' = IF Len(env.goesinstaller) > 0 THEN "installer" ELSE "defer.inner"
    /\ UNCHANGED <<env, i, root, script, fsOld, fsNew, mounts, cwd, chrooted, reqs, inst, shell>>
    /\ UNCHANGED <<mountVars, parm, vnetVars, menu>>

params == SplitOn(env.goesinstaller, ",")

\* InstallerReturn without the inner deferred function: a panic of the
\* installer leaves Main
InstallerReturnUnguarded(e) ==
    /\ inst' = e
    /\ pc' = IF e = "panic" THEN "crashed" ELSE "defer.inner"
    /\ i' = 0

\* the installer returns e to the deferred function, which prints an error
InstallerReturn(e) ==
    /\ inst' = e
    /\ pc' = "defer.inner"
    /\ i' = 0

\* Installer without the KERNEL check
InstallerUnchecked ==
    /\ pc = "installer"
    /\ Log(Op("Main", "installer", env.goesinstaller, <<>>, TRUE))
    /\ pc' = "installer.request" /\ i' = 1 /\ UNCHANGED inst
    /\ reqs' = <<>>
    /\ UNCHANGED <<env, panicking, root, script, fsOld, fsNew, mounts, cwd, chrooted,
                   shell>>
    /\ UNCHANGED <<mountVars, parm, vnetVars, menu>>

\* installer(params): the KERNEL check
Installer ==
    /\ pc = "installer"
    /\ Log(Op("Main", "installer", env.goesinstaller, <<>>, TRUE))
    /\ IF Len(params) < 1 \/ Len(params[1]) = 0
       THEN InstallerReturn("err")
       ELSE pc' = "installer.request" /\ i' = 1 /\ UNCHANGED inst
    /\ reqs' = <<>>
    /\ UNCHANGED <<env, panicking, root, script, fsOld, fsNew, mounts, cwd, chrooted,
                   shell>>
    /\ UNCHANGED <<mountVars, parm, vnetVars, menu>>

\* InstallerRequest making a request for every parameter, empty or not
InstallerRequestAll ==
    /\ pc = "installer.request"
    /\ IF i = 1 \/ Len(params) >= i
       THEN \E ok \in BOOLEAN :
              /\ Log(Op("installer", "NewRequest", params[i], <<ReqNames[i]>>, ok))
              /\ IF ok
                 THEN /\ reqs' = Append(reqs, [url |-> params[i], filename |-> ReqNames[i]])
                      /\ Advance(ReqNames, "installer.request", "installer.fetch")
                      /\ UNCHANGED inst
                 ELSE InstallerReturn("err") /\ UNCHANGED reqs
       ELSE /\ Advance(ReqNames, "installer.request", "installer.fetch")
            /\ UNCHANGED <<ops, reqs, inst>>
    /\ UNCHANGED <<env, panicking, root, script, fsOld, fsNew, mounts, cwd, chrooted,
                   shell>>
    /\ UNCHANGED <<mountVars, parm, vnetVars, menu>>

\* grab.NewRequest for the kernel, then for the initramfs and the FDT when given
InstallerRequest ==
    /\ pc = "installer.request"
    /\ IF i = 1 \/ (Len(params) >= i /\ Len(params[i]) > 0)
       THEN \E ok \in BOOLEAN :
              /\ Log(Op("installer", "NewRequest", params[i], <<ReqNames[i]>>, ok))
              /\ IF ok
                 THEN /\ reqs' = Append(reqs, [url |-> params[i], filename |-> ReqNames[i]])
                      /\ Advance(ReqNames, "installer.request", "installer.fetch")
                      /\ UNCHANGED inst
                 ELSE InstallerReturn("err") /\ UNCHANGED reqs
       ELSE /\ Advance(ReqNames, "installer.request", "installer.fetch")
            /\ UNCHANGED <<ops, reqs, inst>>
    /\ UNCHANGED <<env, panicking, root, script, fsOld, fsNew, mounts, cwd, chrooted,
                   shell>>
    /\ UNCHANGED <<mountVars, parm, vnetVars, menu>>

\* url.FetchReqs(0, reqs): every request is fetched and the successes are
\* counted; the call can also return an error, or panic
FetchReqs(rs) ==
    {[done |-> d, result |-> "nil"] : d \in [1..Len(rs) -> BOOLEAN]}
    \cup {[done |-> [k \in 1..Len(rs) |-> FALSE], result |-> r] : r \in {"err", "panic"}}

\* successes, err := url.FetchReqs(0, reqs); return err when it is not nil
InstallerFetch ==
    /\ pc = "installer.fetch"
    /\ \E f \in FetchReqs(reqs) :
        /\ LogAll([k \in 1..Len(reqs) |->
                     Op("FetchReqs", "fetch", reqs[k].url, <<reqs[k].filename>>, f.done[k])])
        /\ CASE f.result = "panic" ->
                  /\ panicking' = TRUE
                  /\ InstallerReturn("panic")
             [] f.result = "err" ->
                  /\ InstallerReturn("err")
                  /\ UNCHANGED panicking
             [] f.result = "nil" ->
                  \* successes == len(reqs) only selects a message
                  /\ pc' = "installer.kexec"
                  /\ UNCHANGED <<panicking, inst, i>>
    /\ UNCHANGED <<env, root, script, fsOld, fsNew, mounts, cwd, chrooted, reqs,
                   shell>>
    /\ UNCHANGED <<mountVars, parm, vnetVars, menu>>

KexecArgs == <<"-e", "-k", "kernel", "-i", "initramfs", "-c", "console=ttyS0,115200">>

\* InstallerKexec with a kexec that returns nil after loading the kernel
InstallerKexecReturnsNil ==
    /\ pc = "installer.kexec"
    /\ \E ok \in BOOLEAN :
        /\ Log(Op("installer", "kexec", KexecArgs, <<>>, ok))
        /\ InstallerReturn(IF ok THEN "nil" ELSE "err")
    /\ UNCHANGED <<env, panicking, root, script, fsOld, fsNew, mounts, cwd, chrooted,
                   reqs, shell>>
    /\ UNCHANGED <<mountVars, parm, vnetVars, menu>>

\* return goes.Main("kexec", ...): on success the process image is replaced
InstallerKexec ==
    /\ pc = "installer.kexec"
    /\ \E ok \in BOOLEAN :
        /\ Log(Op("installer", "kexec", KexecArgs, <<>>, ok))
        /\ IF ok
           THEN pc' = "kexeced" /\ UNCHANGED <<inst, i>>
           ELSE InstallerReturn("err")
    /\ UNCHANGED <<env, panicking, root, script, fsOld, fsNew, mounts, cwd, chrooted,
                   reqs, shell>>
    /\ UNCHANGED <<mountVars, parm, vnetVars, menu>>

\* DeferInner with emergencyShell called only when a panic was recovered
DeferInnerReturns ==
    /\ pc = "defer.inner"
    /\ Log(Op("Main", "recover", <<>>, <<>>, panicking))
    /\ panicking' = FALSE
    /\ pc' = IF panicking THEN "emergencyShell" ELSE "returned"
    /\ shell' = [n |-> 0, last |-> "none", printed |-> FALSE]
    /\ UNCHANGED <<env, i, root, script, fsOld, fsNew, mounts, cwd, chrooted, reqs, inst>>
    /\ UNCHANGED <<mountVars, parm, vnetVars, menu>>

\* the inner deferred function: recover, print, then c.emergencyShell()
DeferInner ==
    /\ pc = "defer.inner"
    /\ Log(Op("Main", "recover", <<>>, <<>>, panicking))
    /\ panicking' = FALSE
    /\ pc' = "emergencyShell"
    /\ shell' = [n |-> 0, last |-> "none", printed |-> FALSE]
    /\ UNCHANGED <<env, i, root, script, fsOld, fsNew, mounts, cwd, chrooted, reqs, inst>>
    /\ UNCHANGED <<mountVars, parm, vnetVars, menu>>

-----------------------------------------------------------------------------
(* emergencyShell *)

\* EmergencyShell with the loop left on io.EOF
EmergencyShellBreaksOnEOF ==
    /\ pc = "emergencyShell"
    /\ \E r \in {"nil", "EOF", "err", "panic"} :
        /\ shell' = [n |-> (shell.n + 1) % ShellWrap, last |-> r, printed |-> r = "err"]
        /\ CASE r = "panic" -> pc' = "crashed" /\ panicking' = TRUE
             [] r = "EOF" -> pc' = "returned" /\ UNCHANGED panicking
             [] OTHER -> UNCHANGED <<pc, panicking>>
    /\ UNCHANGED <<env, i, root, script, fsOld, fsNew, mounts, cwd, chrooted, ops, reqs,
                   inst>>
    /\ UNCHANGED <<mountVars, parm, vnetVars, menu>>

\* one iteration of the loop: goes.Main("cli"), print an error that is not io.EOF
EmergencyShell ==
    /\ pc = "emergencyShell"
    /\ \E r \in {"nil", "EOF", "err", "panic"} :
        /\ shell' = [n |-> (shell.n + 1) % ShellWrap, last |-> r, printed |-> r = "err"]
        /\ IF r = "panic"
           THEN pc' = "crashed" /\ panicking' = TRUE
           ELSE UNCHANGED <<pc, panicking>>
    /\ UNCHANGED <<env, i, root, script, fsOld, fsNew, mounts, cwd, chrooted, ops,
                   reqs, inst>>
    /\ UNCHANGED <<mountVars, parm, vnetVars, menu>>

-----------------------------------------------------------------------------

Next ==
    \/ MainHook
    \/ PivotMkdir
    \/ PivotMount
    \/ PivotScript
    \/ MakeRootDirs
    \/ MakeRootFiles
    \/ MakeRootLinks
    \/ MoveVirtualFileSystems
    \/ PivotChdir
    \/ UnlinkRootFiles
    \/ RmdirRootDirs
    \/ PivotMoveRoot
    \/ PivotChroot
    \/ MakeTargetDirs
    \/ MakeTargetLinks
    \/ MountTargetVirtualFilesystems
    \/ RunSbinInitEnv
    \/ RunSbinInitExec
    \/ StartMain
    \/ StartLoop
    \/ DeferOuter
    \/ Installer
    \/ InstallerRequest
    \/ InstallerFetch
    \/ InstallerKexec
    \/ DeferInner
    \/ EmergencyShell

Spec == Init /\ [][Next]_vars

\* the process is sequential and always takes its next step
FairSpec == Spec /\ WF_vars(Next)

-----------------------------------------------------------------------------
(* What the log and the position say *)

Idx == 1..Len(ops)

PivotFns == {"pivotRoot", "makeRootDirs", "makeRootFiles", "makeRootLinks",
             "moveVirtualFileSystems", "unlinkRootFiles", "rmdirRootDirs"}

FinalizerFns == {"makeTargetDirs", "makeTargetLinks", "mountTargetVirtualFilesystems",
                 "runSbinInit"}

CleanupFns == {"unlinkRootFiles", "rmdirRootDirs"}

IsCleanup(o) == o.fn \in CleanupFns

\* the operation op of function fn
IsOp(o, fn, op) == o.fn = fn /\ o.op = op

\* an operation of Main's body, as opposed to its deferred function
IsBody(o) == o.fn \in PivotFns \cup FinalizerFns \/ IsOp(o, "Main", "start") \/ IsOp(o, "Main", "Hook")

\* a failed operation on which the code panics
IsFatal(o) == ~o.ok /\ (o.fn \in (PivotFns \ CleanupFns) \cup FinalizerFns \/ IsOp(o, "Main", "Hook"))

Did(fn, op, ok) == \E k \in Idx : ops[k].fn = fn /\ ops[k].op = op /\ ops[k].ok = ok

\* positions inside or after Main's deferred function
InRecovery ==
    pc \in {"defer.outer", "installer", "installer.request", "installer.fetch",
            "installer.kexec", "defer.inner", "emergencyShell", "kexeced", "crashed"}

\* Main's body ended in a panic that the outer deferred function recovered
BodyPanicked == \E k \in Idx : /\ IsOp(ops[k], "Main", "recover") /\ ops[k].ok
                               /\ \A j \in 1..(k - 1) : ~IsOp(ops[j], "Main", "recover")

KexecAttempted == \E k \in Idx : IsOp(ops[k], "installer", "kexec")

KexecFailed == \E k \in Idx : IsOp(ops[k], "installer", "kexec") /\ ~ops[k].ok

-----------------------------------------------------------------------------
(* The skeleton population on its own: pivotRoot from the call of
   makeRootDirs to the return of makeRootLinks, entered with the goesroot
   device mounted at mountPoint, and entered again when it has returned *)

\* the number of times the population is run
MaxRuns == 2

\* ramdisk roots with the staging directory made
StagedRamdisks == {(mountPoint :> DirEnt("0755")) @@ r : r \in RamdiskImages}

StagingImages ==
    LET \* a goesroot device that holds the skeleton's directories only
        TargetDirsOnly == [p \in {RootDirs[k].name : k \in DOMAIN RootDirs} |-> TargetFull[p]]
    IN
        LET \* a goesroot device with the skeleton but for the supervisor binary
            TargetNoGoes == Without(TargetFull, <<"usr", "bin", "goes">>)
        IN
            {EmptyFs, TargetDirsOnly, TargetNoGoes, TargetFull}

\* the filesystems as they are when the population is entered or has returned
Snapshot(op) ==
    [fn |-> "pivotRoot", op |-> op, a |-> <<>>, b |-> <<>>, ok |-> TRUE, fs |-> FS]

IsPopulated(o) == o.fn = "pivotRoot" /\ o.op = "populated"

Runs == Cardinality({k \in Idx : IsPopulated(ops[k])})

PopInit ==
    /\ env \in [goesroot : {<<"/dev/sda1">>}, goesinstaller : {<<>>}, goes : GoesValues]
    /\ pc = "makeRootDirs"
    /\ i = 1
    /\ panicking = FALSE
    /\ root = <<"/dev/sda1">>
    /\ script = <<>>
    /\ fsOld \in StagedRamdisks
    /\ fsNew \in StagingImages
    /\ mounts = BootMounts \cup {[fs |-> "root", at |-> mountPoint]}
    /\ cwd = <<"old", <<>>>>
    /\ chrooted = FALSE
    /\ ops = <<Snapshot("populate")>>
    /\ reqs = <<>>
    /\ inst = "none"
    /\ shell = [n |-> 0, last |-> "none", printed |-> FALSE]
    /\ flag = {} /\ fstab = <<>> /\ goroutines = <<>> /\ rchan = <<>> /\ complete = 0
    /\ parm = <<>> /\ kvpub = <<>> /\ spub = <<>> /\ eventPool = {} /\ events = <<>>
    /\ eventq = <<>> /\ menu = <<>>

\* makeRootLinks has returned: the population is run again, MaxRuns times in all
PivotPopulate ==
    /\ pc = "moveVirtualFileSystems"
    /\ Log(Snapshot("populated"))
    /\ IF Runs + 1 < MaxRuns
       THEN pc' = "makeRootDirs" /\ i' = 1
       ELSE pc' = "populated" /\ i' = 0
    /\ UNCHANGED <<env, panicking, root, script, fsOld, fsNew, mounts, cwd, chrooted,
                   reqs, inst, shell>>
    /\ UNCHANGED <<mountVars, parm, vnetVars, menu>>

PopNext ==
    \/ MakeRootDirs
    \/ MakeRootFiles
    \/ MakeRootLinks
    \/ PivotPopulate

PopSpec == PopInit /\ [][PopNext]_vars

-----------------------------------------------------------------------------
(* The bootstrapper: func init() of package slashinit, which runs before Main *)

Name == "/init"

\* the values of os.Args[0]
Args == {Name, "goes"}

InitMounts == <<
    [dir |-> <<"dev">>, dev |-> "devtmpfs", fstype |-> "devtmpfs", mode |-> "0755"],
    [dir |-> <<"dev", "pts">>, dev |-> "devpts", fstype |-> "devpts", mode |-> "0755"],
    [dir |-> <<"proc">>, dev |-> "proc", fstype |-> "proc", mode |-> "0555"],
    [dir |-> <<"sys">>, dev |-> "sysfs", fstype |-> "sysfs", mode |-> "0555"],
    [dir |-> <<"run">>, dev |-> "tmpfs", fstype |-> "tmpfs", mode |-> "0755"] >>

InitLinks == <<
    [src |-> <<"..", "proc", "self", "fd", "0">>, dst |-> <<"dev", "stdin">>],
    [src |-> <<"..", "proc", "self", "fd", "1">>, dst |-> <<"dev", "stdout">>],
    [src |-> <<"..", "proc", "self", "fd", "2">>, dst |-> <<"dev", "stderr">>] >>

InitRamdisks ==
    LET \* a ramdisk without the mount points
        RamdiskBare ==
            [p \in DOMAIN RamdiskBase \ {<<"dev">>, <<"proc">>, <<"sys">>, <<"run">>} |-> RamdiskBase[p]]
    IN
        LET \* a ramdisk whose /dev holds stdin already
            RamdiskStdin == (<<"dev", "stdin">> :> FileEnt("", "0666")) @@ RamdiskBase
        IN
            {RamdiskBare, RamdiskBase, RamdiskStdin}

BootInit ==
    /\ env = [goesroot |-> <<>>, goesinstaller |-> <<>>, goes |-> ""]
    /\ pc = "init"
    /\ i = 0
    /\ panicking = FALSE
    /\ root = <<>>
    /\ script = <<>>
    /\ fsOld \in InitRamdisks
    /\ fsNew = EmptyFs
    /\ mounts = {}
    /\ cwd = <<"old", <<>>>>
    /\ chrooted = FALSE
    /\ ops = <<>>
    /\ reqs = <<>>
    /\ inst = "none"
    /\ shell = [n |-> 0, last |-> "none", printed |-> FALSE]
    /\ flag = {} /\ fstab = <<>> /\ goroutines = <<>> /\ rchan = <<>> /\ complete = 0
    /\ parm = <<>> /\ kvpub = <<>> /\ spub = <<>> /\ eventPool = {} /\ events = <<>>
    /\ eventq = <<>> /\ menu = <<>>

\* BootGuard without the test of os.Args[0]
BootGuardPidOnly ==
    /\ pc = "init"
    /\ \E pid \in Pids, arg0 \in Args :
        LET ok == pid = 1
        IN  /\ Log(Op("init", "guard", <<arg0>>, <<pid>>, ok))
            /\ pc' = IF ok THEN "init.mounts" ELSE "init.done"
            /\ i' = IF ok THEN 1 ELSE 0
    /\ UNCHANGED <<env, panicking, root, script, fsOld, fsNew, mounts, cwd, chrooted,
                   reqs, inst, shell>>
    /\ UNCHANGED <<mountVars, parm, vnetVars, menu>>

\* if os.Getpid() != 1 { return }; if os.Args[0] != Name { return }
BootGuard ==
    /\ pc = "init"
    /\ \E pid \in Pids, arg0 \in Args :
        LET ok == pid = 1 /\ arg0 = Name
        IN  /\ Log(Op("init", "guard", <<arg0>>, <<pid>>, ok))
            /\ pc' = IF ok THEN "init.mounts" ELSE "init.done"
            /\ i' = IF ok THEN 1 ELSE 0
    /\ UNCHANGED <<env, panicking, root, script, fsOld, fsNew, mounts, cwd, chrooted,
                   reqs, inst, shell>>
    /\ UNCHANGED <<mountVars, parm, vnetVars, menu>>

\* BootMount returning from init when a mkdir fails
BootMountAborts ==
    /\ pc = "init.mounts"
    /\ LET mnt == InitMounts[i]
           absent == Stat(mnt.dir) = "notexist"
       IN  \E fault \in {"none", "mkdir", "mount"} :
             LET mkdirOk == fault # "mkdir" /\ CanCreate(mnt.dir)
                 mounted == (absent => mkdirOk) /\ fault # "mount"
             IN  /\ absent \/ fault # "mkdir"
                 /\ LogAll((IF absent
                            THEN <<Op("init", "mkdir", mnt.dir, <<>>, mkdirOk)>>
                            ELSE <<>>)
                        \o (IF absent => mkdirOk
                            THEN <<Op("init", "mount", mnt.dir, <<mnt.dev>>, mounted)>>
                            ELSE <<>>))
                 /\ SetFs(IF absent /\ mkdirOk THEN PutIn(FS, mnt.dir, DirEnt(mnt.mode)) ELSE FS)
                 /\ mounts' = IF mounted
                              THEN mounts \cup {[fs |-> mnt.fstype, at |-> mnt.dir]}
                              ELSE mounts
                 /\ IF absent /\ ~mkdirOk
                    THEN pc' = "init.done" /\ i' = 0
                    ELSE Advance(InitMounts, "init.mounts", "init.links")
    /\ UNCHANGED <<env, panicking, root, script, cwd, chrooted, reqs, inst, shell>>
    /\ UNCHANGED <<mountVars, parm, vnetVars, menu>>

\* one iteration of the loop over the mounts: mkdir when the directory does
\* not exist, continue when that fails, then mount
BootMount ==
    /\ pc = "init.mounts"
    /\ LET mnt == InitMounts[i]
           absent == Stat(mnt.dir) = "notexist"
       IN  \E fault \in {"none", "mkdir", "mount"} :
             LET mkdirOk == fault # "mkdir" /\ CanCreate(mnt.dir)
                 mounted == (absent => mkdirOk) /\ fault # "mount"
             IN  /\ absent \/ fault # "mkdir"
                 /\ LogAll((IF absent
                            THEN <<Op("init", "mkdir", mnt.dir, <<>>, mkdirOk)>>
                            ELSE <<>>)
                        \o (IF absent => mkdirOk
                            THEN <<Op("init", "mount", mnt.dir, <<mnt.dev>>, mounted)>>
                            ELSE <<>>))
                 /\ SetFs(IF absent /\ mkdirOk THEN PutIn(FS, mnt.dir, DirEnt(mnt.mode)) ELSE FS)
                 /\ mounts' = IF mounted
                              THEN mounts \cup {[fs |-> mnt.fstype, at |-> mnt.dir]}
                              ELSE mounts
                 /\ Advance(InitMounts, "init.mounts", "init.links")
    /\ UNCHANGED <<env, panicking, root, script, cwd, chrooted, reqs, inst, shell>>
    /\ UNCHANGED <<mountVars, parm, vnetVars, menu>>

\* one iteration of the loop over the links: symlink when the path does not
\* exist
BootLink ==
    /\ pc = "init.links"
    /\ LET ln == InitLinks[i]
       IN  IF Stat(ln.dst) = "notexist"
           THEN \E fault \in BOOLEAN :
                  LET ok == ~fault /\ CanCreate(ln.dst)
                  IN  /\ Log(Op("init", "symlink", ln.dst, ln.src, ok))
                      /\ SetFs(IF ok THEN PutIn(FS, ln.dst, LinkEnt(FALSE, ln.src)) ELSE FS)
           ELSE UNCHANGED <<ops, fsOld, fsNew>>
    /\ IF i < Len(InitLinks) THEN pc' = "init.links" /\ i' = i + 1
       ELSE pc' = "init.done" /\ i' = 0
    /\ UNCHANGED <<env, panicking, root, script, mounts, cwd, chrooted, reqs, inst, shell>>
    /\ UNCHANGED <<mountVars, parm, vnetVars, menu>>

BootNext ==
    \/ BootGuard
    \/ BootMount
    \/ BootLink

BootSpec == BootInit /\ [][BootNext]_vars

-----------------------------------------------------------------------------
(* The mount command: src/internal/required/mount/mount.go *)

\* The constants of package syscall. A flag word is the set of the positions of
\* its one bits; MS_ASYNC is the msync flag 0x1, the bit of MS_RDONLY.
syscall == [
    MS_RDONLY |-> {0},
    MS_NOSUID |-> {1},
    MS_NODEV |-> {2},
    MS_NOEXEC |-> {3},
    MS_SYNCHRONOUS |-> {4},
    MS_REMOUNT |-> {5},
    MS_MANDLOCK |-> {6},
    MS_DIRSYNC |-> {7},
    MS_NOATIME |-> {10},
    MS_NODIRATIME |-> {11},
    MS_BIND |-> {12},
    MS_MOVE |-> {13},
    MS_SILENT |-> {15},
    MS_POSIXACL |-> {16},
    MS_UNBINDABLE |-> {17},
    MS_PRIVATE |-> {18},
    MS_SLAVE |-> {19},
    MS_SHARED |-> {20},
    MS_RELATIME |-> {21},
    MS_I_VERSION |-> {23},
    MS_STRICTATIME |-> {24},
    MS_ASYNC |-> {0} ]

translations == <<
    [name |-> "-read-only", bits |-> syscall.MS_RDONLY, set |-> TRUE],
    [name |-> "-read-write", bits |-> syscall.MS_RDONLY, set |-> FALSE],
    [name |-> "-suid", bits |-> syscall.MS_NOSUID, set |-> FALSE],
    [name |-> "-no-suid", bits |-> syscall.MS_NOSUID, set |-> TRUE],
    [name |-> "-dev", bits |-> syscall.MS_NODEV, set |-> FALSE],
    [name |-> "-no-dev", bits |-> syscall.MS_NODEV, set |-> TRUE],
    [name |-> "-exec", bits |-> syscall.MS_NOEXEC, set |-> FALSE],
    [name |-> "-no-exec", bits |-> syscall.MS_NOEXEC, set |-> TRUE],
    [name |-> "-synchronous", bits |-> syscall.MS_SYNCHRONOUS, set |-> TRUE],
    [name |-> "-no-synchronous", bits |-> syscall.MS_SYNCHRONOUS, set |-> TRUE],
    [name |-> "-remount", bits |-> syscall.MS_REMOUNT, set |-> TRUE],
    [name |-> "-mand", bits |-> syscall.MS_MANDLOCK, set |-> TRUE],
    [name |-> "-no-mand", bits |-> syscall.MS_MANDLOCK, set |-> FALSE],
    [name |-> "-dirsync", bits |-> syscall.MS_DIRSYNC, set |-> TRUE],
    [name |-> "-no-dirsync", bits |-> syscall.MS_DIRSYNC, set |-> FALSE],
    [name |-> "-atime", bits |-> syscall.MS_NOATIME, set |-> FALSE],
    [name |-> "-no-atime", bits |-> syscall.MS_NOATIME, set |-> TRUE],
    [name |-> "-diratime", bits |-> syscall.MS_NODIRATIME, set |-> FALSE],
    [name |-> "-no-diratime", bits |-> syscall.MS_NODIRATIME, set |-> TRUE],
    [name |-> "-bind", bits |-> syscall.MS_BIND, set |-> TRUE],
    [name |-> "-move", bits |-> syscall.MS_MOVE, set |-> TRUE],
    [name |-> "-silent", bits |-> syscall.MS_SILENT, set |-> TRUE],
    [name |-> "-loud", bits |-> syscall.MS_SILENT, set |-> FALSE],
    [name |-> "-posixacl", bits |-> syscall.MS_POSIXACL, set |-> TRUE],
    [name |-> "-no-posixacl", bits |-> syscall.MS_POSIXACL, set |-> FALSE],
    [name |-> "-bindable", bits |-> syscall.MS_UNBINDABLE, set |-> FALSE],
    [name |-> "-unbindable", bits |-> syscall.MS_UNBINDABLE, set |-> TRUE],
    [name |-> "-private", bits |-> syscall.MS_PRIVATE, set |-> TRUE],
    [name |-> "-slave", bits |-> syscall.MS_SLAVE, set |-> TRUE],
    [name |-> "-shared", bits |-> syscall.MS_SHARED, set |-> TRUE],
    [name |-> "-relatime", bits |-> syscall.MS_RELATIME, set |-> TRUE],
    [name |-> "-no-relatime", bits |-> syscall.MS_RELATIME, set |-> FALSE],
    [name |-> "-iversion", bits |-> syscall.MS_I_VERSION, set |-> TRUE],
    [name |-> "-no-iversion", bits |-> syscall.MS_I_VERSION, set |-> FALSE],
    [name |-> "-strictatime", bits |-> syscall.MS_STRICTATIME, set |-> TRUE],
    [name |-> "-no-strictatime", bits |-> syscall.MS_STRICTATIME, set |-> FALSE] >>

\* the option names Main hands to flags.New
FlagNames == {
    "--fake", "-v", "-a", "-F", "-defaults", "-p", "-r", "-read-write",
    "-suid", "-no-suid", "-dev", "-no-dev", "-exec", "-no-exec",
    "-synchronous", "-no-synchronous", "-remount", "-mand", "-no-mand",
    "-dirsync", "-no-dirsync", "-atime", "-no-atime", "-diratime",
    "-no-diratime", "-bind", "-move", "-silent", "-loud", "-posixacl",
    "-no-posixacl", "-bindable", "-unbindable", "-private", "-slave",
    "-shared", "-relatime", "-no-relatime", "-iversion", "-no-iversion",
    "-strictatime", "-no-strictatime" }

\* what the man page documents: the option, its bits, and whether they are set
Man == <<
    [name |-> "-defaults",
     bits |-> syscall.MS_RDONLY \cup syscall.MS_NODEV \cup syscall.MS_NOEXEC \cup syscall.MS_NOSUID, set |-> FALSE],
    [name |-> "-r", bits |-> syscall.MS_RDONLY, set |-> TRUE],
    [name |-> "-read-write", bits |-> syscall.MS_RDONLY, set |-> FALSE],
    [name |-> "-suid", bits |-> syscall.MS_NOSUID, set |-> FALSE],
    [name |-> "-no-suid", bits |-> syscall.MS_NOSUID, set |-> TRUE],
    [name |-> "-dev", bits |-> syscall.MS_NODEV, set |-> FALSE],
    [name |-> "-no-dev", bits |-> syscall.MS_NODEV, set |-> TRUE],
    [name |-> "-exec", bits |-> syscall.MS_NOEXEC, set |-> FALSE],
    [name |-> "-no-exec", bits |-> syscall.MS_NOEXEC, set |-> TRUE],
    [name |-> "-synchronous", bits |-> syscall.MS_SYNCHRONOUS, set |-> TRUE],
    [name |-> "-no-synchronous", bits |-> syscall.MS_SYNCHRONOUS, set |-> FALSE],
    [name |-> "-remount", bits |-> syscall.MS_REMOUNT, set |-> TRUE],
    [name |-> "-mand", bits |-> syscall.MS_MANDLOCK, set |-> TRUE],
    [name |-> "-no-mand", bits |-> syscall.MS_MANDLOCK, set |-> FALSE],
    [name |-> "-dirsync", bits |-> syscall.MS_DIRSYNC, set |-> TRUE],
    [name |-> "-no-dirsync", bits |-> syscall.MS_DIRSYNC, set |-> FALSE] >>

\* at most this many option words are typed
MaxFlags == 2

\* /etc/fstab holds at most this many entries
MaxFstab == 2

\* the sets of at most n words typed before DEVICE DIR: options of the man
\* page and of the translations table
RECURSIVE CommandLines(_)
CommandLines(n) ==
    IF n = 0 THEN {{}}
    ELSE LET S == CommandLines(n - 1)
             OptionWords == FlagNames \cup {translations[k].name : k \in DOMAIN translations}
         IN  S \cup {s \cup {w} : s \in S, w \in OptionWords}

\* flags.New: the words of the list become flags, every other word stays an
\* argument
FlagsNew(words, names) == [flag |-> words \cap names, args |-> words \ names]

\* mountone's flag word, from -defaults and then the translations in order
RECURSIVE Translate(_, _, _)
Translate(k, f, word) ==
    IF k > Len(translations) THEN word
    ELSE LET x == translations[k]
         IN  Translate(k + 1, f,
                 IF x.name \in f
                 THEN IF x.set THEN word \cup x.bits ELSE word \ x.bits
                 ELSE word)

Flags(f) ==
    LET \* const MS_NOUSER uintptr = (1 << 31)
        MS_NOUSER == {31}
    IN
        Translate(1, f,
            IF "-defaults" \in f
            THEN ((((({} \ syscall.MS_RDONLY) \ syscall.MS_NOSUID) \ syscall.MS_NODEV) \ syscall.MS_NOEXEC)
                      \cup MS_NOUSER) \cup syscall.MS_ASYNC
            ELSE {})

\* getFilesystems: fs.autoList, the names on the lines of /proc/filesystems
\* that do not begin with "nodev", in the order of the file
autoList ==
    LET lines == SelectSeq(fsOld[<<"proc", "filesystems">>].data, LAMBDA l : l[1] # "nodev")
    IN  [k \in DOMAIN lines |-> lines[k][1]]

\* ioutil.ReadDir("/sys/block"): the block devices, sorted by name
files ==
    SelectSeq(<<[name |-> "sda", dev |-> "/dev/sda"], [name |-> "sdb", dev |-> "/dev/sdb"]>>,
              LAMBDA f : <<"sys", "block", f.name>> \in DOMAIN fsOld)

\* what a goMountone is started for: the entries of fstab by mountall, by
\* mountprobe every block device on its directory under the mount point
Mountable ==
    IF "-a" \in flag THEN fstab
    ELSE [k \in DOMAIN files |->
             [fsSpec |-> files[k].dev, fsFile |-> <<"mnt", files[k].name>>,
              fsType |-> parm["-t"], mntOpts |-> ""]]

MountInit ==
    LET Fstab == <<
            [fsSpec |-> "/dev/sda1", fsFile |-> <<"mnt", "a">>, fsType |-> "ext4", mntOpts |-> "defaults"],
            [fsSpec |-> "/dev/sda2", fsFile |-> <<"mnt", "b">>, fsType |-> "ext4", mntOpts |-> "ro"],
            [fsSpec |-> "/dev/sda3", fsFile |-> <<"mnt", "c">>, fsType |-> "ext4", mntOpts |-> "defaults"],
            [fsSpec |-> "/dev/sda4", fsFile |-> <<"mnt", "d">>, fsType |-> "ext4", mntOpts |-> "defaults"] >>
    IN
        /\ env = [goesroot |-> <<>>, goesinstaller |-> <<>>, goes |-> ""]
        /\ pc = "mount.Main"
        /\ i = 0
        /\ panicking = FALSE
        /\ root = <<>>
        /\ script = <<>>
        /\ LET Image(lines, devs) ==
                   (<<"proc", "filesystems">> :> FileEnt(lines, "0444")) @@
                   (<<"sys", "block">> :> DirEnt("0755")) @@
                   [p \in {<<"sys", "block", d>> : d \in devs} |-> DirEnt("0755")] @@
                   (<<"mnt">> :> DirEnt("0755")) @@
                   RamdiskBase
           IN  fsOld \in {Image(<<<<"nodev", "proc">>, <<"ext4">>, <<"vfat">>>>, {"sda", "sdb"}),
                          Image(<<<<"nodev", "proc">>, <<"nodev", "tmpfs">>>>, {"sda"})}
        /\ fsNew = EmptyFs
        /\ mounts = BootMounts
        /\ cwd = <<"old", <<>>>>
        /\ chrooted = FALSE
        /\ ops = <<>>
        /\ reqs = <<>>
        /\ inst = "none"
        /\ shell = [n |-> 0, last |-> "none", printed |-> FALSE]
        /\ flag = {}
        /\ fstab \in {SubSeq(Fstab, 1, n) : n \in 0..MaxFstab}
        /\ goroutines = <<>>
        /\ rchan = <<>>
        /\ complete = 0
        /\ parm \in {("-t" :> "auto"), ("-t" :> "ext4")}
        /\ kvpub = <<>> /\ spub = <<>> /\ eventPool = {} /\ events = <<>>
        /\ eventq = <<>> /\ menu = <<>>

mainVars == <<env, panicking, root, script, fsOld, fsNew, cwd, chrooted, reqs, inst, shell>>

\* Main: the options are parsed; -a mounts all of fstab, -p MOUNTPOINT probes
\* the block devices, DEVICE DIR alone is mounted by mountone, and a word
\* flags.New did not take makes the arguments three or more
MountMain ==
    /\ pc = "mount.Main"
    /\ \E words \in CommandLines(MaxFlags) :
           LET parsed == FlagsNew(words, FlagNames)
           IN  /\ flag' = parsed.flag
               /\ IF "-a" \in parsed.flag
                  THEN /\ pc' = "mountall"
                       /\ i' = 1
                       /\ goroutines' = [k \in 1..Len(fstab) |-> "none"]
                       /\ UNCHANGED ops
                  ELSE IF parsed.args = {} /\ "-p" \in parsed.flag
                  THEN /\ pc' = "mountprobe"
                       /\ i' = 1
                       /\ goroutines' = [k \in 1..Len(files) |-> "none"]
                       /\ UNCHANGED ops
                  ELSE IF parsed.args = {}
                  THEN /\ pc' = "mountone"
                       /\ UNCHANGED <<i, goroutines, ops>>
                  ELSE /\ pc' = "mount.done"
                       /\ Log(Op("Main", "unexpected", parsed.args, <<>>, FALSE))
                       /\ UNCHANGED <<i, goroutines>>
    /\ UNCHANGED <<mainVars, parm, vnetVars, menu, mounts, fstab, rchan, complete>>

\* mountone after the --fake test: syscall.Mount for each of tryTypes up to the
\* first that succeeds, n of them having failed, and the MountResult returned,
\* whose err is that of the last syscall (nil when there was none);
\* readSuperBlock, called for a type that is not nodev, returns no error
Mountone(t, dev, dir, n) ==
    LET tryTypes == IF t = "auto" THEN autoList ELSE <<t>>
        tried == [k \in 1..(IF n < Len(tryTypes) THEN n + 1 ELSE n) |->
                     [t |-> tryTypes[k]] @@ Op("mountone", "mount", dev, Flags(flag), k = n + 1)]
    IN  /\ n <= Len(tryTypes)
        /\ LogAll(tried \o <<Op("mountone", "return", dev, dir,
                                n < Len(tryTypes) \/ tryTypes = <<>>)>>)
        /\ mounts' = IF n < Len(tryTypes) THEN mounts \cup {[fs |-> dev, at |-> dir]}
                     ELSE mounts

\* Main, two arguments: mountone and ShowResult
MountOne ==
    /\ pc = "mountone"
    /\ pc' = "mount.done"
    /\ IF "--fake" \in flag
       THEN /\ Log(Op("mountone", "fake", "/dev/sdb1", <<"mnt">>, TRUE))
            /\ UNCHANGED mounts
       ELSE \E n \in 0..(Len(autoList) + 1) : Mountone(parm["-t"], "/dev/sdb1", <<"mnt">>, n)
    /\ UNCHANGED <<mainVars, parm, vnetVars, menu, i, flag, fstab, goroutines, rchan, complete>>

\* mountall's loop: the go statement for entry i; after the last entry the
\* results not yet received are flushed
MountallGo ==
    /\ pc = "mountall"
    /\ IF i <= Len(fstab)
       THEN /\ goroutines' = [goroutines EXCEPT ![i] = "started"]
            /\ pc' = "pollMountResults"
       ELSE /\ pc' = "flushMountResults"
            /\ UNCHANGED goroutines
    /\ UNCHANGED <<mainVars, parm, vnetVars, menu, i, mounts, ops, flag, fstab, rchan, complete>>

\* mountprobe's loop: the directory of device i is made when it does not
\* exist, a failure of the mkdir returning from mountprobe at once; then the go
\* statement; after the last device the results not yet received are flushed
MountprobeGo ==
    /\ pc = "mountprobe"
    /\ IF i <= Len(files)
       THEN LET mp == <<"mnt", files[i].name>>
            IN  \E fault \in BOOLEAN :
                  /\ fault => Stat(mp) = "notexist"
                  /\ IF Stat(mp) = "notexist" /\ (fault \/ ~CanCreate(mp))
                     THEN /\ Log(Op("mountprobe", "mkdir", mp, <<>>, FALSE))
                          /\ pc' = "mount.done"
                          /\ UNCHANGED <<fsOld, goroutines>>
                     ELSE /\ IF Stat(mp) = "notexist"
                             THEN /\ Log(Op("mountprobe", "mkdir", mp, <<>>, TRUE))
                                  /\ fsOld' = PutIn(FS, mp, DirEnt("0555")).old
                             ELSE UNCHANGED <<ops, fsOld>>
                          /\ goroutines' = [goroutines EXCEPT ![i] = "started"]
                          /\ pc' = "pollMountResults"
       ELSE /\ pc' = "flushMountResults"
            /\ UNCHANGED <<goroutines, ops, fsOld>>
    /\ UNCHANGED <<env, panicking, root, script, fsNew, cwd, chrooted, reqs, inst, shell>>
    /\ UNCHANGED <<parm, vnetVars, menu, i, mounts, flag, fstab, rchan, complete>>

\* pollMountResults: a result that is ready is received and shown and the
\* select runs again; with none ready the loop of the caller goes on
PollMountResults ==
    /\ pc = "pollMountResults"
    /\ IF rchan # <<>>
       THEN /\ rchan' = Tail(rchan)
            /\ complete' = complete + 1
            /\ Log(Op("pollMountResults", "show", Head(rchan).dev, <<>>, Head(rchan).ok))
            /\ UNCHANGED <<pc, i>>
       ELSE /\ pc' = IF "-a" \in flag THEN "mountall" ELSE "mountprobe"
            /\ i' = i + 1
            /\ UNCHANGED <<rchan, complete, ops>>
    /\ UNCHANGED <<mainVars, parm, vnetVars, menu, mounts, flag, fstab, goroutines>>

\* flushMountResults: blocks for each result still missing
FlushMountResults ==
    /\ pc = "flushMountResults"
    /\ IF complete < Len(Mountable)
       THEN /\ rchan # <<>>
            /\ rchan' = Tail(rchan)
            /\ complete' = complete + 1
            /\ Log(Op("flushMountResults", "show", Head(rchan).dev, <<>>, Head(rchan).ok))
            /\ UNCHANGED pc
       ELSE /\ pc' = "mount.done"
            /\ UNCHANGED <<rchan, complete, ops>>
    /\ UNCHANGED <<mainVars, parm, vnetVars, menu, i, mounts, flag, fstab, goroutines>>

\* goMountone(k) enters mountone: --fake returns at once, otherwise the mount
\* syscalls are entered
GoMountone(k) ==
    /\ goroutines[k] = "started"
    /\ goroutines' = [goroutines EXCEPT ![k] = IF "--fake" \in flag THEN "faked" ELSE "mounting"]
    /\ UNCHANGED <<mainVars, parm, vnetVars, menu, pc, i, mounts, ops, flag, fstab, rchan, complete>>

\* the mount syscalls of goroutine k return
GoMountoneMount(k) ==
    /\ goroutines[k] = "mounting"
    /\ \E n \in 0..(Len(autoList) + 1) :
           /\ Mountone(Mountable[k].fsType, Mountable[k].fsSpec, Mountable[k].fsFile, n)
           /\ goroutines' = [goroutines EXCEPT ![k] =
                                IF ops'[Len(ops')].ok THEN "mounted" ELSE "failed"]
    /\ UNCHANGED <<mainVars, parm, vnetVars, menu, pc, i, flag, fstab, rchan, complete>>

\* goroutine k sends its MountResult: it blocks while the channel, of capacity
\* cap, is full
GoMountoneSend(k) ==
    /\ goroutines[k] \in {"faked", "mounted", "failed"}
    /\ LET cap == IF "-F" \in flag THEN Len(Mountable) ELSE 1
       IN  Len(rchan) < cap
    /\ rchan' = Append(rchan, [ok |-> goroutines[k] # "failed", dev |-> Mountable[k].fsSpec,
                               dir |-> Mountable[k].fsFile])
    /\ goroutines' = [goroutines EXCEPT ![k] = "sent"]
    /\ UNCHANGED <<mainVars, parm, vnetVars, menu, pc, i, mounts, ops, flag, fstab, complete>>

MountNext ==
    \/ MountMain
    \/ MountOne
    \/ MountallGo
    \/ MountprobeGo
    \/ PollMountResults
    \/ FlushMountResults
    \/ \E k \in DOMAIN goroutines : GoMountone(k)
    \/ \E k \in DOMAIN goroutines : GoMountoneMount(k)
    \/ \E k \in DOMAIN goroutines : GoMountoneSend(k)

MountSpec == MountInit /\ [][MountNext]_vars

-----------------------------------------------------------------------------
(* C1 *)

\* C1 as stated: every execution ends in the exec of /sbin/init, in a
\* successful kexec hand-off or in the emergency shell loop.
C1_Original == <>(pc \in {"execed", "kexeced", "emergencyShell"})

\* C1, amended: Main never returns to its caller, and every execution ends in
\* the exec of /sbin/init, in a successful kexec hand-off, in the emergency
\* shell loop, or inside the start command, which as PID 1 does not return
\* once its start-up steps succeeded.
C1_NeverReturns ==
    /\ [](pc # "returned")
    /\ <>(pc \in {"execed", "kexeced", "emergencyShell", "start.loop", "start.blocked"})

\* the emergency shell is running after the start command returned to Main
C1_Witness ==
    /\ pc = "emergencyShell"
    /\ shell.last # "none"
    /\ \E k \in Idx : IsOp(ops[k], "Main", "start")

-----------------------------------------------------------------------------
(* C2 *)

\* C2: whenever the installer ends without replacing the process image, by an
\* error return or by a panic, the emergency shell is entered, and it is
\* entered with the installer's panic recovered.
C2_ShellAfterInstaller ==
    /\ [](pc = "emergencyShell" => ~panicking)
    /\ [](pc = "crashed" => shell.last = "panic")
    /\ ((inst \in {"err", "panic"} /\ pc = "defer.inner") ~> (pc = "emergencyShell"))

\* the emergency shell is running after the installer panicked
C2_Witness == pc = "emergencyShell" /\ inst = "panic" /\ shell.last = "nil"

-----------------------------------------------------------------------------
(* C3 *)

\* C3: emergencyShell never leaves its loop.  In the loop the only step is
\* the call of the cli, which is always possible; whatever the cli returns,
\* the process is at the head of the loop again (only a panic of the cli ends
\* it); and the error has been printed exactly when the cli returned an error
\* other than io.EOF.
C3_ShellLoops ==
    /\ [](pc = "emergencyShell" => ENABLED EmergencyShell)
    /\ [][pc = "emergencyShell"
            => /\ shell'.n = (shell.n + 1) % ShellWrap
               /\ IF shell'.last = "panic" THEN pc' = "crashed"
                  ELSE pc' = "emergencyShell"]_vars
    /\ [](pc = "emergencyShell" /\ shell.last # "none"
            => (shell.printed <=> shell.last = "err"))

\* the cli returned an error a second time
C3_Witness ==
    pc = "emergencyShell" /\ shell.last = "err" /\ shell.printed /\ shell.n = 0

-----------------------------------------------------------------------------
(* C4 *)

\* C4: once Main's deferred function is entered, the emergency shell is
\* reached exactly when kexec was not attempted or returned an error: the
\* recovery ends in the shell or in a successful kexec, the shell is entered
\* only without a successful kexec, and a successful kexec is the last thing
\* the process does.
C4_ShellIffNoHandoff ==
    /\ [](pc \in {"emergencyShell", "crashed"} => (~KexecAttempted \/ KexecFailed))
    /\ [](pc = "kexeced" <=> (KexecAttempted /\ ~KexecFailed))
    /\ ((pc = "defer.outer") ~> (pc \in {"emergencyShell", "kexeced"}))

\* the emergency shell is running after kexec was called for two fetched
\* images and returned an error
C4_Witness ==
    /\ pc = "emergencyShell"
    /\ KexecFailed
    /\ Cardinality({k \in Idx : IsOp(ops[k], "FetchReqs", "fetch") /\ ops[k].ok}) = 2

-----------------------------------------------------------------------------
(* C5 *)

\* C5 as stated: kexec is invoked only if every fetch request succeeded.
C5_KexecOnlyIfAllFetched ==
    KexecAttempted => \A k \in Idx : IsOp(ops[k], "FetchReqs", "fetch") => ops[k].ok

-----------------------------------------------------------------------------
(* C6 *)

\* C6 as stated: the installer is invoked only after Main's body ended in a
\* panic.
C6_InstallerOnlyAfterFailure ==
    (\E k \in Idx : IsOp(ops[k], "Main", "installer")) => BodyPanicked

-----------------------------------------------------------------------------
(* C7 *)

Removed(k) == IsCleanup(ops[k]) /\ ops[k].ok

\* C7 as stated: nothing is removed from the ramdisk root before the move of
\* the staging path onto / has succeeded.
C7_Original ==
    \A k \in Idx : Removed(k) =>
        \E j \in 1..(k - 1) : ops[j].op = "moveroot" /\ ops[j].ok

\* C7, amended: nothing is removed from the ramdisk root before the chdir into
\* the staging path has succeeded; the unlinks and rmdirs are all made before
\* the move of the staging path onto / is attempted.
C7_RemovalAfterChdir ==
    \A k \in Idx : IsCleanup(ops[k]) =>
        /\ \E j \in 1..(k - 1) : ops[j].op = "chdir" /\ ops[j].fn = "pivotRoot" /\ ops[j].ok
        /\ \A j \in 1..(k - 1) : ops[j].op # "moveroot"

\* /init was unlinked and the staging path then moved onto /
C7_Witness ==
    /\ Did("pivotRoot", "moveroot", TRUE)
    /\ \E k \in Idx : Removed(k) /\ ops[k].a = <<"init">>

-----------------------------------------------------------------------------
(* C8 *)

\* the mount that the bootstrapper made at the ramdisk path mv.src is now
\* at mountPoint \o mv.dst
Relocated(mv) == ~MountedAt(mv.src) /\ MountedAt(mountPoint \o mv.dst)

Moved(mv) ==
    \E k \in Idx : /\ ops[k].fn = "moveVirtualFileSystems" /\ ops[k].op = "move"
                   /\ ops[k].b = mv.src /\ ops[k].ok

\* C8: the first removal on the old root comes only after the whole skeleton
\* is in the goesroot filesystem and the four virtual filesystems have been
\* moved under the staging path; after a failed step of the mount, the script,
\* the skeleton population, the relocation or the chdir nothing is ever
\* removed.
C8_CleanupAfterPopulation ==
    /\ (pc \in CleanupFns \/ \E k \in Idx : IsCleanup(ops[k])) =>
          /\ \A k \in DOMAIN RootDirs : RootDirs[k].name \in DOMAIN fsNew
          /\ \A k \in DOMAIN RootFiles : RootFiles[k].dst \in DOMAIN fsNew
          /\ \A k \in DOMAIN RootLinks : RootLinks[k].dst \in DOMAIN fsNew
          /\ \A k \in DOMAIN VirtualFileSystems : Moved(VirtualFileSystems[k])
          /\ pc \in CleanupFns =>
                \A k \in DOMAIN VirtualFileSystems : Relocated(VirtualFileSystems[k])
    /\ \A j \in Idx :
          (IsFatal(ops[j]) /\ ops[j].op # "moveroot" /\ ops[j].op # "chroot"
             /\ ops[j].fn \in PivotFns)
          => \A k \in Idx : ~IsCleanup(ops[k])

\* the old root is being cleaned after the skeleton was created from nothing
C8_Witness ==
    /\ \E k \in Idx : Removed(k)
    /\ Did("makeRootDirs", "mkdir", TRUE)
    /\ Did("makeRootFiles", "copy", TRUE)
    /\ Did("makeRootLinks", "symlink", TRUE)

-----------------------------------------------------------------------------
(* C9 *)

\* C9: after a failed move of the staging path onto / chroot is never called,
\* after a failed chroot no finalizer step runs, and in both cases the
\* process is in Main's deferred function (or beyond).
C9_SwitchAtomic ==
    /\ Did("pivotRoot", "moveroot", FALSE) =>
          /\ \A k \in Idx : ops[k].op # "chroot"
          /\ InRecovery
    /\ Did("pivotRoot", "chroot", FALSE) =>
          /\ Did("pivotRoot", "moveroot", TRUE)
          /\ \A k \in Idx : ops[k].fn \notin FinalizerFns
          /\ InRecovery

\* chroot failed after the move succeeded and the panic has been recovered
C9_Witness ==
    /\ Did("pivotRoot", "chroot", FALSE)
    /\ BodyPanicked
    /\ pc = "emergencyShell"

-----------------------------------------------------------------------------
(* C10 *)

\* C10: a failed fatal step of the pivot or of the finalizer is the last
\* operation of Main's body: the next thing that happens is the recover() of
\* the outer deferred function, which finds the panic, and no pivot step, no
\* finalizer step and no start call follows.
C10_FatalAborts ==
    \A j \in Idx : IsFatal(ops[j]) =>
        /\ \A k \in (j + 1)..Len(ops) : ~IsBody(ops[k])
        /\ IF j = Len(ops)
           THEN pc = "defer.outer" /\ panicking
           ELSE IsOp(ops[j + 1], "Main", "recover") /\ ops[j + 1].ok

\* the boot script failed and the installer was then called
C10_Witness ==
    /\ Did("pivotRoot", "source", FALSE)
    /\ \E k \in Idx : IsOp(ops[k], "Main", "installer")

-----------------------------------------------------------------------------
(* C11 *)

\* the step of Main's body that an operation belongs to
StepOf(o) == <<o.fn, o.op, o.a, o.b>>

\* C11: every step of the pivot and of the finalizer is executed at most
\* once: an operation of Main's body is never one that was performed before
\* and is never performed after the outer deferred function was entered (the
\* record only grows, so it is enough to say this of its last entry in every
\* state), and control never goes back from the deferred function to Main's
\* body.
C11_AtMostOnce ==
    /\ []((ops # <<>> /\ IsBody(ops[Len(ops)])) =>
            \A j \in 1..(Len(ops) - 1) :
                /\ StepOf(ops[j]) # StepOf(ops[Len(ops)])
                /\ ~IsOp(ops[j], "Main", "recover"))
    /\ [][InRecovery => InRecovery']_vars

\* the emergency shell has run twice after the root mount failed and the
\* installer returned an error
C11_Witness ==
    /\ pc = "emergencyShell"
    /\ shell.n = 0
    /\ shell.last = "nil"
    /\ Did("pivotRoot", "mount", FALSE)
    /\ inst = "err"

-----------------------------------------------------------------------------
(* C12 *)

PopulationFns == {"makeRootDirs", "makeRootFiles", "makeRootLinks"}

\* the filesystems the population was entered with
StartFs == ops[1].fs

\* the staging root of f holds every directory, file and link of the skeleton
FullSkeleton(f) ==
    /\ \A k \in DOMAIN RootDirs :
          RootDirs[k].name \in DOMAIN f.new /\ f.new[RootDirs[k].name].k = "dir"
    /\ \A k \in DOMAIN RootFiles :
          RootFiles[k].dst \in DOMAIN f.new /\ f.new[RootFiles[k].dst].k = "file"
    /\ \A k \in DOMAIN RootLinks :
          RootLinks[k].dst \in DOMAIN f.new /\ f.new[RootLinks[k].dst].k = "link"

-----------------------------------------------------------------------------
(* C13 *)

\* C13 as stated: with goes=overwrite and a staging root that holds the whole
\* skeleton, the population writes the supervisor binary /usr/bin/goes and
\* nothing else.
C13_OverwritesOneFile ==
    (env.goes = "overwrite" /\ FullSkeleton(StartFs)) =>
        \A k \in Idx :
            (ops[k].fn \in PopulationFns /\ ops[k].op \in {"mkdir", "create", "copy", "symlink"})
            => ops[k].a = mountPoint \o <<"usr", "bin", "goes">>

-----------------------------------------------------------------------------
(* C14 *)

\* the mounts of the filesystem that the bootstrapper mounted at src
MountsOfBoot(src) ==
    {m \in mounts : m.fs = (CHOOSE n \in BootMounts : n.at = src).fs}

\* the finalizer has mounted its tmpfs
TargetMounted == Did("mountTargetVirtualFilesystems", "mount", TRUE)

\* C14: until the finalizer mounts the target's own filesystems, each of the
\* filesystems at /run, /sys, /proc and /dev is mounted exactly once, at its
\* ramdisk path or at its destination (under the staging path, or under /
\* once the staging path has been moved there); moveVirtualFileSystems only
\* makes directories and moves mounts; and when it has moved all four, and
\* until the staging path is moved onto /, all four are under the staging
\* path and none is at its ramdisk path.
C14_MovedNotRemounted ==
    /\ ~TargetMounted =>
          \A k \in DOMAIN VirtualFileSystems :
              LET mv == VirtualFileSystems[k]
              IN  /\ Cardinality(MountsOfBoot(mv.src)) = 1
                  /\ \A m \in MountsOfBoot(mv.src) :
                        m.at \in {mv.src, mountPoint \o mv.dst, mv.dst}
    /\ \A k \in Idx : ops[k].fn = "moveVirtualFileSystems" => ops[k].op \in {"mkdir", "move"}
    /\ \A k \in Idx : ops[k].op \notin {"umount", "unmount"}
    /\ ((\A k \in DOMAIN VirtualFileSystems : Moved(VirtualFileSystems[k]))
          /\ ~Did("pivotRoot", "moveroot", TRUE))
       => \A k \in DOMAIN VirtualFileSystems : Relocated(VirtualFileSystems[k])

\* all four mounts have been moved and the working directory is the staging
\* path
C14_Witness ==
    /\ pc = "unlinkRootFiles"
    /\ \A k \in DOMAIN VirtualFileSystems : Relocated(VirtualFileSystems[k])
    /\ Did("moveVirtualFileSystems", "mkdir", TRUE)

-----------------------------------------------------------------------------
(* C15 *)

HookFailed == Did("Main", "Hook", FALSE)

\* C15: after a board hook that returned an error or panicked no pivot step,
\* no finalizer step and no start call runs, and control is in Main's deferred
\* function; once the outer recover() has run and control is past the test of
\* goesinstaller, the installer has been called exactly when goesinstaller is
\* not empty; an installer that ended without replacing the process leaves
\* control at the inner deferred function, in the shell or in the shell's
\* crash; and the step after the inner deferred function is emergencyShell.
C15_HookFailureRecovers ==
    /\ [](HookFailed =>
            /\ \A k \in Idx : ops[k].fn \notin PivotFns \cup FinalizerFns /\ ~IsOp(ops[k], "Main", "start")
            /\ InRecovery
            /\ pc \notin {"defer.outer", "installer"}
                  => ((\E k \in Idx : IsOp(ops[k], "Main", "installer")) <=> Len(env.goesinstaller) > 0)
            /\ inst # "none" => pc \in {"defer.inner", "emergencyShell", "crashed"}
            /\ pc = "kexeced" => (KexecAttempted /\ ~KexecFailed))
    /\ [][(HookFailed /\ pc = "defer.inner") => pc' = "emergencyShell"]_vars
    /\ [](HookFailed /\ pc \notin {"emergencyShell", "kexeced", "crashed"} => ENABLED Next)

\* the hook failed, no installer is configured and the shell is running
C15_Witness ==
    /\ HookFailed
    /\ pc = "emergencyShell"
    /\ Len(env.goesinstaller) = 0
    /\ shell.last = "EOF"

-----------------------------------------------------------------------------
(* C16 *)

\* the process is process 1 and was invoked as /init
GuardPassed == ops # <<>> /\ ops[1].op = "guard" /\ ops[1].a = <<Name>> /\ ops[1].b = <<1>>

IsBootOp(o) == o.fn = "init" /\ o.op \in {"mkdir", "mount", "symlink"}

\* C16: the bootstrapper makes a directory, mounts or links only when the
\* process id is 1 and os.Args[0] is /init; otherwise it returns having done
\* nothing.
C16_BootOnlyAsInit ==
    /\ (\E k \in Idx : IsBootOp(ops[k])) => GuardPassed
    /\ (ops # <<>> /\ ~GuardPassed) =>
          /\ pc = "init.done"
          /\ Len(ops) = 1
          /\ mounts = {}
          /\ fsOld \in InitRamdisks

\* process 1 under another name: the bootstrapper has returned
C16_Witness ==
    /\ pc = "init.done"
    /\ ops[1].b = <<1>>
    /\ ops[1].a # <<Name>>

-----------------------------------------------------------------------------
(* C17 *)

\* C17: no failure ends the bootstrapper early.  It never panics; from every
\* entry of the two loops, whatever failed, control goes to the next entry,
\* from the last mount to the first link and from the last link to the
\* return; a step is always possible before the return; and when it has
\* returned, every mount entry has left its mkdir or its mount in the record.
C17_BootBestEffort ==
    /\ [](pc \in {"init", "init.mounts", "init.links", "init.done"} /\ ~panicking)
    /\ [][/\ pc = "init.mounts" =>
                IF i < Len(InitMounts) THEN pc' = "init.mounts" /\ i' = i + 1
                ELSE pc' = "init.links" /\ i' = 1
          /\ pc = "init.links" =>
                IF i < Len(InitLinks) THEN pc' = "init.links" /\ i' = i + 1
                ELSE pc' = "init.done"]_vars
    /\ [](pc # "init.done" => ENABLED BootNext)
    /\ []((pc = "init.done" /\ GuardPassed) =>
            \A k \in DOMAIN InitMounts :
                \E j \in Idx : IsBootOp(ops[j]) /\ ops[j].a = InitMounts[k].dir)

\* the mkdir of /dev failed, a later mount failed, and the bootstrapper still
\* mounted /run, tried the links and returned
C17_Witness ==
    /\ pc = "init.done"
    /\ Len(ops) >= 2
    /\ ops[2].op = "mkdir" /\ ~ops[2].ok
    /\ Did("init", "mount", FALSE)
    /\ [fs |-> "tmpfs", at |-> <<"run">>] \in mounts
    /\ Cardinality({k \in Idx : ops[k].op = "symlink"}) = Len(InitLinks)

-----------------------------------------------------------------------------
(* C18 *)

CommaRoot == <<"/dev/sda1", ",", "/etc/boot.conf">>

HookDone == Did("Main", "Hook", TRUE)

\* every mount of the root is of r at the staging path, and every script run
\* is of sc
PivotUses(r, sc) ==
    \A k \in Idx : ops[k].fn = "pivotRoot" =>
        /\ ops[k].op = "mount" => (ops[k].a = mountPoint /\ ops[k].b = r)
        /\ ops[k].op = "source" => (ops[k].a = sc /\ Did("pivotRoot", "mount", TRUE))

\* C18 as stated: with goesroot="/dev/sda1,/etc/boot.conf" Main derives
\* root=/dev/sda1 and script=/etc/boot.conf.
C18_Original ==
    (env.goesroot = CommaRoot /\ HookDone) =>
        root = <<"/dev/sda1">> /\ script = <<"/etc/boot.conf">>

\* C18, amended: the pair is separated by the path-list separator ":".  With
\* goesroot="/dev/sda1:/etc/boot.conf" Main derives root=/dev/sda1 and
\* script=/etc/boot.conf, mounts /dev/sda1 at /newroot and runs the script
\* before the population starts; with goesroot="/dev/sda1,/etc/boot.conf" the
\* whole value is the root that is mounted and no script is run.
C18_RootAndScript ==
    /\ (env.goesroot = <<"/dev/sda1", ":", "/etc/boot.conf">> /\ HookDone) =>
          /\ root = <<"/dev/sda1">>
          /\ script = <<"/etc/boot.conf">>
          /\ PivotUses(<<"/dev/sda1">>, <<"/etc/boot.conf">>)
          /\ pc = "makeRootDirs" => Did("pivotRoot", "source", TRUE)
    /\ (env.goesroot = CommaRoot /\ HookDone) =>
          /\ root = CommaRoot
          /\ script = <<>>
          /\ PivotUses(CommaRoot, <<>>)
          /\ \A k \in Idx : ops[k].op # "source"

\* with the comma the root was mounted and the population starts, no script
\* having run
C18_Witness ==
    /\ env.goesroot = CommaRoot
    /\ Did("pivotRoot", "mount", TRUE)
    /\ pc = "makeRootDirs"

-----------------------------------------------------------------------------
(* C19 *)

\* the positions of goesinstaller that hold a URL
UrlPositions == {k \in 1..Len(ReqNames) : k <= Len(params) /\ params[k] # <<>>}

\* C19: the requests that the installer hands to url.FetchReqs are one for
\* each of the first three positions of goesinstaller that holds a URL and no
\* other, in the order of the positions, the request for position k being for
\* that URL with the file name kernel, initramfs or fdt that belongs to k.
C19_FetchPerUrl ==
    pc = "installer.fetch" =>
        /\ Len(reqs) = Cardinality(UrlPositions)
        /\ \A k \in UrlPositions :
              LET j == Cardinality({n \in UrlPositions : n <= k})
              IN  reqs[j] = [url |-> params[k], filename |-> ReqNames[k]]

\* the root mount failed and, for two URLs, url.FetchReqs is called with the
\* requests for kernel and initramfs
C19_Witness ==
    /\ pc = "installer.fetch"
    /\ Did("pivotRoot", "mount", FALSE)
    /\ Len(params) = 2
    /\ Len(reqs) = 2
    /\ reqs[1].filename = "kernel"
    /\ reqs[2].filename = "initramfs"

-----------------------------------------------------------------------------
(* C20 *)

\* C20 as stated: kexec is given the initramfs exactly when one was
\* requested and the FDT exactly when one was requested.
C20_KexecNamesFetched ==
    KexecAttempted =>
        \A k \in 2..Len(ReqNames) :
            (ReqNames[k] \in {KexecArgs[n] : n \in DOMAIN KexecArgs}) <=> (\E j \in DOMAIN reqs : reqs[j].filename = ReqNames[k])

-----------------------------------------------------------------------------
(* C21 *)

\* C21: runSbinInit returns to Main only when /sbin/init does not exist,
\* without a panic, and Main then calls start; a failed stat or exec of
\* /sbin/init is a panic, after which start is never called.
C21_SbinInitAbsentOrFatal ==
    /\ [](pc = "start" => (Stat(sbininit) = "notexist" /\ ~panicking))
    /\ []((\E k \in Idx : IsOp(ops[k], "Main", "start"))
            => \A k \in Idx : ops[k].fn = "runSbinInit" => ops[k].op \notin {"stat", "exec"})
    /\ []((Did("runSbinInit", "stat", FALSE) \/ Did("runSbinInit", "exec", FALSE))
            => (InRecovery /\ \A k \in Idx : ~IsOp(ops[k], "Main", "start")))
    /\ [][pc = "runSbinInit.stat" =>
            \/ pc' = "start" /\ Stat(sbininit) = "notexist"
            \/ pc' = "execed"
            \/ pc' = "defer.outer" /\ panicking' /\ ~ops'[Len(ops')].ok]_vars
    /\ [][pc = "start" => IsOp(ops'[Len(ops')], "Main", "start")]_vars

\* /sbin/init is absent and start is running its loop
C21_Witness ==
    /\ pc = "start.loop"
    /\ Stat(sbininit) = "notexist"
    /\ \E k \in Idx : IsOp(ops[k], "Main", "start")

-----------------------------------------------------------------------------
(* C22 *)

\* C22: a finalizer step runs only after the pivot was skipped for an empty
\* root (no operation of the pivot was performed) or ran to the end of a
\* successful chroot; with an empty root Main goes from the hook straight to
\* the finalizer, no pivot step is ever executed and the finalizer works on
\* the ramdisk root.
C22_FinalizerAfterPivot ==
    /\ []((\/ pc \in {"makeTargetDirs", "makeTargetLinks",
                      "mountTargetVirtualFilesystems", "runSbinInit", "runSbinInit.stat"}
           \/ \E k \in Idx : ops[k].fn \in FinalizerFns)
            => \/ root = <<>> /\ \A k \in Idx : ops[k].fn \notin PivotFns
               \/ Did("pivotRoot", "chroot", TRUE))
    /\ []((HookDone /\ root = <<>>)
            => /\ \A k \in Idx : ops[k].fn \notin PivotFns
               /\ ~chrooted
               /\ RootMounts = {})
    /\ [][(pc = "Hook" /\ pc' # "defer.outer" /\ root' = <<>>) => pc' = "makeTargetDirs"]_vars

\* without a root the finalizer made /tmp on the ramdisk and mounted it
C22_Witness ==
    /\ root = <<>>
    /\ Did("makeTargetDirs", "mkdir", TRUE)
    /\ <<"tmp">> \in DOMAIN fsOld
    /\ TargetMounted

-----------------------------------------------------------------------------
(* C23 *)

\* C23 as stated: start as PID 1 keeps iterating: whenever it is past its
\* start-up steps, whatever the cli returned, it is eventually at the head of
\* its loop, where login/cli is invoked again.
C23_StartIterates ==
    [](pc \in {"start.loop", "start.blocked"} => <>(pc = "start.loop" /\ ENABLED StartLoop))

-----------------------------------------------------------------------------
(* C24 *)

\* C24 as stated: mount -a without -F has at most one mount operation in
\* progress at any time: at most one goroutine is inside the mount syscall.
C24_SequentialWithoutF ==
    ("-F" \notin flag)
        => Cardinality({k \in DOMAIN goroutines : goroutines[k] = "mounting"}) <= 1

-----------------------------------------------------------------------------
(* C25 *)

\* C25 as stated: the flag word mountone passes to the mount syscall matches
\* the man page: every option given alone for its bits leaves them set or
\* clear as documented (-r sets MS_RDONLY, -no-synchronous clears
\* MS_SYNCHRONOUS).
C25_FlagWordMatchesMan ==
    LET \* the options given, other than x, that the man page has act on a
        \* bit of x
        Rivals(x) ==
            {Man[k].name : k \in {n \in DOMAIN Man : Man[n].bits \cap x.bits # {}}}
                \cap (flag \ {x.name})
        \* the word agrees with what the man page says of option x
        Agrees(word, x) ==
            IF x.set THEN x.bits \subseteq word ELSE x.bits \cap word = {}
    IN  \A n \in Idx :
            (ops[n].fn = "mountone" /\ ops[n].op = "mount")
                => \A k \in DOMAIN Man :
                       (Man[k].name \in flag /\ Rivals(Man[k]) = {})
                           => Agrees(ops[n].b, Man[k])

-----------------------------------------------------------------------------
(* C26 *)

\* an operation of the pivot that comes after the script: the skeleton, the
\* move of the virtual filesystems, the cleanup of the ramdisk and the switch
AfterScript(o) ==
    \/ o.fn \in PivotFns \ {"pivotRoot"}
    \/ o.fn = "pivotRoot" /\ o.op \in {"chdir", "moveroot", "chroot"}

\* C26: a configured boot script is run after the root was mounted and before
\* any skeleton write (no such write happens without the script having
\* succeeded); once the script has failed no skeleton directory, file or link
\* is created, no virtual filesystem is moved, nothing is removed from the
\* ramdisk, and the filesystems and the mount table stay as they were.
C26_ScriptBeforeSkeleton ==
    /\ [](ops # <<>> /\ ops[Len(ops)].fn = "pivotRoot" /\ ops[Len(ops)].op = "source"
            => /\ Did("pivotRoot", "mount", TRUE)
               /\ \A k \in Idx : ~AfterScript(ops[k]))
    /\ [](ops # <<>> /\ AfterScript(ops[Len(ops)])
            => /\ script = <<>> \/ Did("pivotRoot", "source", TRUE)
               /\ ~Did("pivotRoot", "source", FALSE))
    /\ [][pc = "pivotRoot.script" /\ Len(script) > 0
            => ops' # ops /\ ops'[Len(ops')].op = "source"]_vars
    /\ [][Did("pivotRoot", "source", FALSE)
            => fsOld' = fsOld /\ fsNew' = fsNew /\ mounts' = mounts]_vars

\* the script failed on a mounted root, and Main has gone on to its recovery
C26_Witness ==
    /\ Did("pivotRoot", "source", FALSE)
    /\ Did("pivotRoot", "mount", TRUE)
    /\ pc = "emergencyShell"

-----------------------------------------------------------------------------
(* C27 *)

\* the cleanup entries in the order of the two loops: function and path
CleanupOrder ==
    [k \in 1..Len(UnlinkFiles) |-> <<"unlinkRootFiles", UnlinkFiles[k]>>]
        \o [k \in 1..Len(RmdirDirs) |-> <<"rmdirRootDirs", RmdirDirs[k]>>]

\* C27: the cleanup of the old root (the unlinks, then the rmdirs, a directory
\* after the files and directories below it) runs only after the chdir into
\* the staging path succeeded; no unlink or rmdir failure stops it: when the
\* move onto / is due every cleanup entry has been attempted, in order, and the
\* move is then attempted whatever the outcomes were.
C27_CleanupBestEffort ==
    /\ [](ops # <<>> /\ IsCleanup(ops[Len(ops)]) => Did("pivotRoot", "chdir", TRUE))
    /\ [](pc = "pivotRoot.move"
            => LET n == Len(CleanupOrder)
               IN  /\ Len(ops) >= n
                   /\ CleanupOrder =
                          [k \in 1..n |-> <<ops[Len(ops) - n + k].fn, ops[Len(ops) - n + k].a>>])
    /\ [](\A j, k \in DOMAIN CleanupOrder :
            ~(j < k /\ IsPrefix(CleanupOrder[j][2], CleanupOrder[k][2])))
    /\ [][(pc \in CleanupFns)
            => (/\ ~panicking'
                /\ pc' \in CleanupFns \cup {"pivotRoot.move"}
                /\ IsCleanup(ops'[Len(ops')]))]_vars
    /\ [][pc = "pivotRoot.move" => ops'[Len(ops')].op = "moveroot"]_vars

\* a rmdir failed (/usr/bin still held a file), the entries after it were
\* attempted and the staging path was moved onto /
C27_Witness ==
    /\ Did("rmdirRootDirs", "rmdir", FALSE)
    /\ \E k \in Idx : ops[k].fn = "rmdirRootDirs" /\ ops[k].a = <<"bin">> /\ ops[k].ok
    /\ Did("pivotRoot", "moveroot", TRUE)

-----------------------------------------------------------------------------
(* C28 *)

\* the skeleton population of pivotRoot on a device installed before
InstalledInit ==
    LET \* a goesroot device whose /sbin/init is a symbolic link with an absolute
        \* target: it resolves once the device is the root, not from the ramdisk
        TargetAbsInit ==
            (<<"sbin", "init">> :> LinkEnt(TRUE, <<"usr", "bin", "goes">>)) @@ TargetFull
    IN
        /\ env \in [goesroot : {<<"/dev/sda1">>}, goesinstaller : {<<>>}, goes : GoesValues]
        /\ pc = "makeRootDirs"
        /\ i = 1
        /\ panicking = FALSE
        /\ root = <<"/dev/sda1">>
        /\ script = <<>>
        /\ fsOld \in StagedRamdisks
        /\ fsNew \in StagingImages \cup {TargetAbsInit}
        /\ mounts = BootMounts \cup {[fs |-> "root", at |-> mountPoint]}
        /\ cwd = <<"old", <<>>>>
        /\ chrooted = FALSE
        /\ ops = <<Snapshot("populate")>>
        /\ reqs = <<>>
        /\ inst = "none"
        /\ shell = [n |-> 0, last |-> "none", printed |-> FALSE]
        /\ flag = {} /\ fstab = <<>> /\ goroutines = <<>> /\ rchan = <<>> /\ complete = 0
        /\ parm = <<>> /\ kvpub = <<>> /\ spub = <<>> /\ eventPool = {} /\ events = <<>>
        /\ eventq = <<>> /\ menu = <<>>

InstalledSpec == InstalledInit /\ [][PopNext]_vars

\* C28 as stated: a directory or symlink step of the skeleton is fatal only
\* when the create operation was attempted on an absent destination; with any
\* object at the destination, a symbolic link that does not resolve included,
\* the creation is skipped.
C28_ExistingSkipped ==
    LET \* the last operation was a mkdir or symlink of the skeleton, and it
        \* failed
        MakeFailed ==
            /\ ops # <<>>
            /\ ops[Len(ops)].fn \in {"makeRootDirs", "makeRootLinks", "makeTargetDirs",
                                     "makeTargetLinks"}
            /\ ops[Len(ops)].op \in {"mkdir", "symlink"}
            /\ ~ops[Len(ops)].ok
    IN  MakeFailed => ~Present(ops[Len(ops)].a)

-----------------------------------------------------------------------------
(* C29 *)

\* C29 as stated: the chmod that ends a copy of makeRootFiles is applied to the
\* copy under the staging path, which has mode 0755 once it succeeded, and the
\* ramdisk root is as it was before the population.
C29_ChmodOnStagingCopy ==
    LET ChmodDone ==
            /\ ops # <<>>
            /\ ops[Len(ops)].fn = "makeRootFiles"
            /\ ops[Len(ops)].op = "chmod"
    IN  ChmodDone =>
            /\ IsPrefix(mountPoint, ops[Len(ops)].a)
            /\ ops[Len(ops)].ok => Entry(ops[Len(ops)].a).mode = "0755"
            /\ fsOld = StartFs.old

-----------------------------------------------------------------------------
(* C30 *)

\* C30 as stated: when the installer has returned, the fetch of every
\* configured image was attempted, but for an image whose own request could
\* not be built: the failure of one image does not keep the others from
\* being fetched.
C30_FetchesIndependent ==
    LET \* grab.NewRequest failed for the image
        RequestFailed(file) ==
            \E k \in Idx : /\ ops[k].fn = "installer" /\ ops[k].op = "NewRequest"
                           /\ ops[k].b = <<file>> /\ ~ops[k].ok
        \* the fetch of the image was attempted
        FetchAttempted(file) == \E k \in Idx : IsOp(ops[k], "FetchReqs", "fetch") /\ ops[k].b = <<file>>
    IN  (inst # "none") =>
            \A k \in UrlPositions :
                RequestFailed(ReqNames[k]) \/ FetchAttempted(ReqNames[k])

-----------------------------------------------------------------------------
(* C31 *)

\* C31: when goesinstaller is not empty and its first, kernel, element is
\* empty, the installer's one step returns the error to the deferred function
\* with no request made, no fetch and no kexec ever attempted, and the next
\* step of the deferred function enters the emergency shell.
C31_KernelMissing ==
    /\ []((Len(env.goesinstaller) > 0 /\ Len(params[1]) = 0) =>
            /\ reqs = <<>>
            /\ ~KexecAttempted
            /\ \A k \in Idx : ~IsOp(ops[k], "FetchReqs", "fetch")
            /\ pc \notin {"installer.request", "installer.fetch", "installer.kexec", "kexeced"})
    /\ [][(pc = "installer" /\ Len(params[1]) = 0) =>
            (inst' = "err" /\ pc' = "defer.inner")]_vars
    /\ [][(pc = "defer.inner") => (pc' = "emergencyShell")]_vars

\* the installer was called with an empty kernel element, returned its
\* error, and the emergency shell has run the cli
C31_Witness ==
    /\ Len(env.goesinstaller) > 0
    /\ Len(params[1]) = 0
    /\ \E k \in Idx : IsOp(ops[k], "Main", "installer")
    /\ inst = "err"
    /\ pc = "emergencyShell"
    /\ shell.last = "nil"

-----------------------------------------------------------------------------
(* C32 *)

\* C32 as stated: a panic of the cli that the emergency shell invokes does
\* not leave Main; the process is still in the emergency shell loop, which
\* enters the shell again.
C32_ShellSurvivesPanic ==
    shell.last = "panic" => (pc = "emergencyShell" /\ ENABLED EmergencyShell)

-----------------------------------------------------------------------------
(* C34 *)

\* pivotRoot after the mount of the goesroot device, no boot script given
LinkedInit ==
    LET \* a goesroot device whose /sbin/init is a symbolic link to the absolute path
        \* /init: from the ramdisk it resolves to the running supervisor, in the
        \* device itself to nothing
        TargetInitLink ==
            (<<"sbin", "init">> :> LinkEnt(TRUE, <<"init">>)) @@ TargetFull
    IN
        /\ env \in [goesroot : {<<"/dev/sda1">>}, goesinstaller : {<<>>}, goes : GoesValues]
        /\ pc = "makeRootDirs"
        /\ i = 1
        /\ panicking = FALSE
        /\ root = <<"/dev/sda1">>
        /\ script = <<>>
        /\ fsOld \in StagedRamdisks
        /\ fsNew \in {TargetFull, TargetInitLink}
        /\ mounts = BootMounts \cup {[fs |-> "root", at |-> mountPoint]}
        /\ cwd = <<"old", <<>>>>
        /\ chrooted = FALSE
        /\ ops = <<>>
        /\ reqs = <<>>
        /\ inst = "none"
        /\ shell = [n |-> 0, last |-> "none", printed |-> FALSE]
        /\ flag = {} /\ fstab = <<>> /\ goroutines = <<>> /\ rchan = <<>> /\ complete = 0
        /\ parm = <<>> /\ kvpub = <<>> /\ spub = <<>> /\ eventPool = {} /\ events = <<>>
        /\ eventq = <<>> /\ menu = <<>>

\* the rest of pivotRoot, the finalizer and the call of start
LinkedNext ==
    \/ MakeRootDirs
    \/ MakeRootFiles
    \/ MakeRootLinks
    \/ MoveVirtualFileSystems
    \/ PivotChdir
    \/ UnlinkRootFiles
    \/ RmdirRootDirs
    \/ PivotMoveRoot
    \/ PivotChroot
    \/ MakeTargetDirs
    \/ MakeTargetLinks
    \/ MountTargetVirtualFilesystems
    \/ RunSbinInitEnv
    \/ RunSbinInitExec
    \/ StartMain

LinkedSpec == LinkedInit /\ [][LinkedNext]_vars

\* C34 as stated: once the pivot has completed, /sbin/init exists in the new
\* root for as long as the finalizer runs, and start is called only when
\* there was no pivot.
C34_InitAfterPivot ==
    /\ (Did("pivotRoot", "chroot", TRUE) /\ ~panicking /\ pc # "start") =>
           Stat(sbininit) = "ok"
    /\ pc = "start" => ~Did("pivotRoot", "chroot", TRUE)

-----------------------------------------------------------------------------
(* The start command on its own (start.go): Main from internal.AssertRoot to
   its return or its entry into the shell loop of PID 1.  Every step is logged
   in ops with fn "start"; the return value is the a field of the op "return". *)

\* goes.Daemon: the level of each registered daemon
Daemon == [vnetd |-> 1, sshd |-> 0, qspi |-> -1]

\* Main's steps before the daemons, in the order of the code; fails tells
\* whether the step has an error return
StartSteps == <<
    [op |-> "AssertRoot", fails |-> TRUE],
    [op |-> "Stat", fails |-> FALSE],
    [op |-> "Hook", fails |-> TRUE],
    [op |-> "redisd", fails |-> TRUE],
    [op |-> "Publish", fails |-> TRUE],
    [op |-> "Hostname", fails |-> TRUE],
    [op |-> "hostname", fails |-> FALSE],
    [op |-> "version", fails |-> FALSE],
    [op |-> "machine", fails |-> FALSE],
    [op |-> "cmdline.New", fails |-> TRUE],
    [op |-> "cmdline", fails |-> FALSE],
    [op |-> "PubHook", fails |-> TRUE] >>

StartInit ==
    /\ env = [goesroot |-> <<>>, goesinstaller |-> <<>>, goes |-> ""]
    /\ pc = "start.Main"
    /\ i = 1
    /\ panicking = FALSE
    /\ root = <<>>
    /\ script = <<>>
    /\ fsOld \in {RamdiskBase,
                  (<<"run", "goes", "socks", "redisd">> :> FileEnt("", "0755")) @@ RamdiskBase}
    /\ fsNew = EmptyFs
    /\ mounts = BootMounts
    /\ cwd = <<"old", <<>>>>
    /\ chrooted = FALSE
    /\ ops = <<>>
    /\ reqs = <<>>
    /\ inst = "none"
    /\ shell = [n |-> 0, last |-> "none", printed |-> FALSE]
    /\ flag = {} /\ fstab = <<>> /\ goroutines = <<>> /\ rchan = <<>> /\ complete = 0
    /\ parm \in {[conf |-> ""], [conf |-> "/etc/goes/start"]}
    /\ kvpub = <<>> /\ spub = <<>> /\ eventPool = {} /\ events = <<>>
    /\ eventq = <<>> /\ menu = <<>>

\* StartStep going on to the next step after a step that returned an error
StartStepContinues ==
    /\ pc = "start.Main"
    /\ LET st == StartSteps[i]
       IN  \E err \in BOOLEAN, machine \in BOOLEAN :
             /\ err => st.fails
             /\ machine \/ st.op = "machine"
             /\ IF st.op = "Stat" /\ Stat(<<"run", "goes", "socks", "redisd">>) = "ok"
                THEN /\ LogAll(<<Op("start", "Stat", <<>>, <<>>, TRUE),
                                 Op("start", "return", "already started", <<>>, FALSE)>>)
                     /\ pc' = "start.done"
                     /\ UNCHANGED i
                ELSE IF st.op = "machine" /\ ~machine
                THEN /\ Advance(StartSteps, "start.Main", "start.daemons")
                     /\ UNCHANGED ops
                ELSE /\ Log(Op("start", st.op, <<>>, <<>>, ~err))
                     /\ Advance(StartSteps, "start.Main", "start.daemons")
    /\ UNCHANGED <<mainVars, mountVars, mounts, parm, vnetVars, menu>>

\* one step of Main before the daemons; a step that fails returns its error,
\* and an existing socket file of redisd returns "already started"
StartStep ==
    /\ pc = "start.Main"
    /\ LET st == StartSteps[i]
       IN  \E err \in BOOLEAN, machine \in BOOLEAN :
             /\ err => st.fails
             /\ machine \/ st.op = "machine"
             /\ IF st.op = "Stat" /\ Stat(<<"run", "goes", "socks", "redisd">>) = "ok"
                THEN /\ LogAll(<<Op("start", "Stat", <<>>, <<>>, TRUE),
                                 Op("start", "return", "already started", <<>>, FALSE)>>)
                     /\ pc' = "start.done"
                     /\ UNCHANGED i
                ELSE IF st.op = "machine" /\ ~machine
                THEN /\ Advance(StartSteps, "start.Main", "start.daemons")
                     /\ UNCHANGED ops
                ELSE IF err
                THEN /\ LogAll(<<Op("start", st.op, <<>>, <<>>, FALSE),
                                 Op("start", "return", "err", <<>>, FALSE)>>)
                     /\ pc' = "start.done"
                     /\ UNCHANGED i
                ELSE /\ Log(Op("start", st.op, <<>>, <<>>, st.op # "Stat"))
                     /\ Advance(StartSteps, "start.Main", "start.daemons")
    /\ UNCHANGED <<mainVars, mountVars, mounts, parm, vnetVars, menu>>

\* one iteration of the range over goes.Daemon, whose order is not defined
StartDaemon ==
    /\ pc = "start.daemons"
    /\ LET left == DOMAIN Daemon \
                     {ops[k].a : k \in {j \in Idx : ops[j].op \in {"daemon", "skip"}}}
       IN  IF left = {}
           THEN pc' = "start.conf" /\ UNCHANGED <<i, ops>>
           ELSE \E daemon \in left, err \in BOOLEAN :
                  /\ err => Daemon[daemon] >= 0
                  /\ IF Daemon[daemon] < 0
                     THEN /\ Log(Op("start", "skip", daemon, <<>>, TRUE))
                          /\ UNCHANGED <<pc, i>>
                     ELSE IF err
                     THEN /\ LogAll(<<Op("start", "daemon", daemon, <<>>, FALSE),
                                      Op("start", "return", "err", <<>>, FALSE)>>)
                          /\ pc' = "start.done"
                          /\ UNCHANGED i
                     ELSE /\ Log(Op("start", "daemon", daemon, <<>>, TRUE))
                          /\ UNCHANGED <<pc, i>>
    /\ UNCHANGED <<mainVars, mountVars, mounts, parm, vnetVars, menu>>

\* with -conf: ConfHook, then goes.Main("source", s); then the return of nil,
\* or the shell loop when os.Getpid() is 1
StartConf ==
    /\ pc = "start.conf"
    /\ \E err \in BOOLEAN, pid \in Pids :
         /\ err => (i \in {1, 2} /\ parm.conf # "")
         /\ pid = 1 \/ (~err /\ (i = 3 \/ parm.conf = ""))
         /\ IF err
            THEN /\ LogAll(<<Op("start", IF i = 1 THEN "ConfHook" ELSE "source",
                                parm.conf, <<>>, FALSE),
                             Op("start", "return", "err", <<>>, FALSE)>>)
                 /\ pc' = "start.done"
                 /\ UNCHANGED i
            ELSE IF i = 3 \/ parm.conf = ""
            THEN IF pid = 1
                 THEN pc' = "start.shell" /\ UNCHANGED <<i, ops>>
                 ELSE /\ Log(Op("start", "return", "nil", <<>>, TRUE))
                      /\ pc' = "start.done"
                      /\ UNCHANGED i
            ELSE /\ Log(Op("start", IF i = 1 THEN "ConfHook" ELSE "source",
                           parm.conf, <<>>, TRUE))
                 /\ i' = i + 1
                 /\ UNCHANGED pc
    /\ UNCHANGED <<mainVars, mountVars, mounts, parm, vnetVars, menu>>

StartNext ==
    \/ StartStep
    \/ StartDaemon
    \/ StartConf

StartSpec == StartInit /\ [][StartNext]_vars

-----------------------------------------------------------------------------
(* C33 *)

\* C33: the steps of start are run in the order AssertRoot, Stat of the
\* redisd socket, Hook, redisd, the publications, PubHook, the daemons of
\* non-negative level, each once, then ConfHook and source, these two only
\* with -conf; a step that fails is followed by the return of its error and
\* by nothing else; and when the socket file exists and AssertRoot succeeded,
\* start returns "already started" with neither Hook nor a daemon run.
C33_StartInOrder ==
    LET Rank(o) ==
            CASE o.op \in {"daemon", "skip"} -> Len(StartSteps) + 1
              [] o.op = "ConfHook" -> Len(StartSteps) + 2
              [] o.op = "source" -> Len(StartSteps) + 3
              [] o.op = "return" -> Len(StartSteps) + 4
              [] OTHER -> CHOOSE n \in DOMAIN StartSteps : StartSteps[n].op = o.op
        Ran(d) == \E k \in Idx : ops[k].op = "daemon" /\ ops[k].a = d
        Returned(e) == ops # <<>> /\ ops[Len(ops)].op = "return" /\ ops[Len(ops)].a = e
    IN  /\ \A k \in Idx \ {1} :
              \/ Rank(ops[k - 1]) < Rank(ops[k])
              \/ Rank(ops[k - 1]) = Len(StartSteps) + 1 /\ Rank(ops[k]) = Len(StartSteps) + 1
        /\ \A k \in Idx :
              /\ (~ops[k].ok /\ ops[k].op \notin {"Stat", "return"}) =>
                     (k + 1 = Len(ops) /\ Returned("err"))
              /\ ops[k].op = "return" => (k = Len(ops) /\ pc = "start.done")
              /\ ops[k].op = "daemon" =>
                     /\ Daemon[ops[k].a] >= 0
                     /\ \A j \in 1..(k - 1) : ops[j].op = "daemon" => ops[j].a # ops[k].a
              /\ ops[k].op \in {"ConfHook", "source"} => parm.conf # ""
        /\ (pc \in {"start.conf", "start.shell"} \/ Returned("nil")) =>
              \A d \in DOMAIN Daemon : Daemon[d] >= 0 => Ran(d)
        /\ ((pc = "start.shell" \/ Returned("nil")) /\ parm.conf # "") =>
              \E k \in Idx : ops[k].op = "source" /\ ops[k].ok
        /\ (Stat(<<"run", "goes", "socks", "redisd">>) = "ok" /\ pc = "start.done") =>
              /\ \A k \in Idx : ops[k].op \notin {"Hook", "redisd", "daemon"}
              /\ ops[1].ok => Returned("already started")

\* with -conf given every step succeeded and start returned nil
C33_Witness ==
    /\ pc = "start.done"
    /\ parm.conf # ""
    /\ ops[Len(ops)].op = "return"
    /\ ops[Len(ops)].ok
    /\ \E k \in Idx : ops[k].op = "machine"
    /\ \E k \in Idx : ops[k].op = "skip"

\* C33 as stated: whenever the socket file of redisd exists, start returns
\* "already started".
C33_Original ==
    (Stat(<<"run", "goes", "socks", "redisd">>) = "ok" /\ pc = "start.done") =>
        (ops[Len(ops)].op = "return" /\ ops[Len(ops)].a = "already started")

-----------------------------------------------------------------------------
(* C35 *)

\* C35 as stated: a mountone that did not return for --fake returns a result
\* with a nil error only after a mount syscall of its own that succeeded.
C35_NilOnlyAfterMount ==
    \A k \in Idx :
        (ops[k].fn = "mountone" /\ ops[k].op = "return" /\ ops[k].ok) =>
            /\ k > 1
            /\ ops[k - 1].fn = "mountone"
            /\ ops[k - 1].op = "mount"
            /\ ops[k - 1].a = ops[k].a
            /\ ops[k - 1].ok

-----------------------------------------------------------------------------
(* C36 *)

\* C36 as stated: when mountall or mountprobe has returned, every goroutine
\* it launched has sent its result, each result was received and shown once,
\* and none is left in the channel.
C36_EveryResultReceived ==
    (pc = "mount.done" /\ ("-a" \in flag \/ "-p" \in flag)) =>
        /\ \A k \in DOMAIN goroutines : goroutines[k] \in {"none", "sent"}
        /\ rchan = <<>>
        /\ complete = Cardinality({k \in DOMAIN goroutines : goroutines[k] = "sent"})
        /\ complete = Cardinality({k \in Idx : ops[k].op = "show"})

-----------------------------------------------------------------------------
(* The vnet daemon (vnetd.go) after Init: the vnet event loop, which runs the
   interface hooks, the stats poller and the events signalled to it; the
   publisher goroutine; the Hset calls, each in a goroutine of the rpc
   server; and redis at the far end of spub.  pc is the position of the event
   loop and i the event it is acting on. *)

\* the capacity of Info.kvpub, 16<<10 in the source
KvpubCap == 2

\* the strings redis.Publish lets pile up in spub
SpubCap == 1

\* the Hset calls: the first field parses as an interface speed, the second
\* as nothing that can be set
Hsets == <<[key |-> "eth-1.speed", value |-> "100g"], [key |-> "bogus", value |-> "1"]>>

VnetInit ==
    /\ env = [goesroot |-> <<>>, goesinstaller |-> <<>>, goes |-> ""]
    /\ pc = "vnet.loop"
    /\ i = 0
    /\ panicking = FALSE
    /\ root = <<>>
    /\ script = <<>>
    /\ fsOld = RamdiskBase
    /\ fsNew = EmptyFs
    /\ mounts = BootMounts
    /\ cwd = <<"old", <<>>>>
    /\ chrooted = FALSE
    /\ ops = <<>>
    /\ reqs = <<>>
    /\ inst = "none"
    /\ shell = [n |-> 0, last |-> "none", printed |-> FALSE]
    /\ flag = {} /\ fstab = <<>> /\ rchan = <<>> /\ complete = 0
    /\ goroutines = [publisher |-> "recv",
                     set |-> [c \in DOMAIN Hsets |-> [pc |-> "Get", e |-> 0]]]
    /\ parm = <<>> /\ kvpub = <<>> /\ spub = <<>> /\ eventPool = {} /\ events = <<>>
    /\ eventq = <<>> /\ menu = <<>>

\* the event loop runs an interface hook or the stats poller, which calls
\* Info.publish: the send on kvpub blocks while the channel is full
Publish ==
    /\ IF pc = "vnet.loop"
       THEN pc' = "publish" /\ UNCHANGED kvpub
       ELSE /\ pc = "publish"
            /\ Len(kvpub) < KvpubCap
            /\ kvpub' = Append(kvpub, "key: value")
            /\ pc' = "vnet.loop"
    /\ UNCHANGED <<mainVars, mountVars, parm, menu, i, mounts, ops, spub, eventPool, events,
                   eventq>>

\* the publisher goroutine: a receive from kvpub, then the send on spub
Publisher ==
    /\ IF goroutines.publisher = "recv"
       THEN /\ kvpub # <<>>
            /\ kvpub' = Tail(kvpub)
            /\ goroutines' = [goroutines EXCEPT !.publisher = "send"]
            /\ UNCHANGED spub
       ELSE /\ Len(spub) < SpubCap
            /\ spub' = Append(spub, "key: value")
            /\ goroutines' = [goroutines EXCEPT !.publisher = "recv"]
            /\ UNCHANGED kvpub
    /\ UNCHANGED <<mainVars, parm, menu, pc, i, mounts, ops, eventPool, events, eventq,
                   flag, fstab, rchan, complete>>

\* redis takes a string from spub
RedisReceive ==
    /\ spub # <<>>
    /\ spub' = Tail(spub)
    /\ UNCHANGED <<mainVars, mountVars, parm, menu, pc, i, mounts, ops, kvpub, eventPool,
                   events, eventq>>

\* Info.set for call c of Hset: eventPool.Get, which hands out a pooled event
\* or a new one, the key and value, SignalEvent; the receive from e.err; and
\* for a nil error the send on spub
Set(c) ==
    LET g == goroutines.set[c]
        Goto(l) == goroutines' = [goroutines EXCEPT !.set[c].pc = l]
    IN  /\ CASE g.pc = "Get" ->
                 \E e \in eventPool \cup {Len(events) + 1} :
                     /\ events' = IF e \in eventPool
                                  THEN [events EXCEPT ![e].key = Hsets[c].key,
                                                      ![e].value = Hsets[c].value]
                                  ELSE Append(events, [key |-> Hsets[c].key,
                                                       value |-> Hsets[c].value,
                                                       err |-> <<>>])
                     /\ eventPool' = eventPool \ {e}
                     /\ eventq' = Append(eventq, e)
                     /\ goroutines' = [goroutines EXCEPT !.set[c] = [pc |-> "recv", e |-> e]]
                     /\ UNCHANGED <<ops, spub>>
              [] g.pc = "recv" ->
                     /\ events[g.e].err # <<>>
                     /\ events' = [events EXCEPT ![g.e].err = Tail(@)]
                     /\ IF Head(events[g.e].err) = "nil"
                        THEN Goto("publish") /\ UNCHANGED ops
                        ELSE /\ Goto("done")
                             /\ Log(Op("set", "return", Hsets[c].key, g.e, FALSE))
                     /\ UNCHANGED <<eventPool, eventq, spub>>
              [] g.pc = "publish" ->
                     /\ Len(spub) < SpubCap
                     /\ spub' = Append(spub, Hsets[c].key)
                     /\ Goto("done")
                     /\ LogAll(<<Op("set", "publish", Hsets[c].key, Hsets[c].value, TRUE),
                                 Op("set", "return", Hsets[c].key, g.e, TRUE)>>)
                     /\ UNCHANGED <<eventPool, events, eventq>>
              [] OTHER -> FALSE
        /\ UNCHANGED <<mainVars, parm, menu, pc, i, mounts, kvpub, flag, fstab, rchan,
                       complete>>

\* the event loop takes the next signalled event; its EventAction parses the
\* key, sets the speed or fails, sends the result on e.err, which holds one
\* value, and puts the event back into the pool
EventAction ==
    /\ IF pc = "vnet.loop"
       THEN /\ eventq # <<>>
            /\ i' = Head(eventq)
            /\ eventq' = Tail(eventq)
            /\ pc' = "EventAction"
            /\ UNCHANGED <<events, eventPool, ops>>
       ELSE /\ pc = "EventAction"
            /\ events[i].err = <<>>
            /\ \E ok \in BOOLEAN :
                   /\ ok => events[i].key = "eth-1.speed"
                   /\ events' = [events EXCEPT ![i].err = <<IF ok THEN "nil" ELSE "err">>]
                   /\ Log(Op("EventAction", "set", events[i].key, i, ok))
            /\ eventPool' = eventPool \cup {i}
            /\ pc' = "vnet.loop"
            /\ UNCHANGED <<i, eventq>>
    /\ UNCHANGED <<mainVars, mountVars, parm, menu, mounts, kvpub, spub>>

VnetNext ==
    \/ Publish
    \/ Publisher
    \/ RedisReceive
    \/ \E c \in DOMAIN Hsets : Set(c)
    \/ EventAction

VnetSpec == VnetInit /\ [][VnetNext]_vars

-----------------------------------------------------------------------------
(* C37 *)

\* C37 as stated: the event loop is never blocked in Info.publish; the send
\* on kvpub can always be done at once.
C37_PublishNeverBlocks ==
    pc = "publish" => ENABLED Publish

-----------------------------------------------------------------------------
(* C38 *)

\* C38 as stated: Info.set returns to each caller the result of the
\* EventAction that ran for the caller's own key, and "key: value" is
\* published exactly for the keys whose EventAction succeeded.
C38_OwnResult ==
    \A k \in Idx :
        /\ (ops[k].fn = "set" /\ ops[k].op = "return") =>
               \E j \in 1..(k - 1) :
                   /\ ops[j].fn = "EventAction"
                   /\ ops[j].a = ops[k].a
                   /\ ops[j].ok = ops[k].ok
        /\ (ops[k].fn = "set" /\ ops[k].op = "publish") =>
               \E j \in 1..(k - 1) :
                   /\ ops[j].fn = "EventAction"
                   /\ ops[j].a = ops[k].a
                   /\ ops[j].ok

-----------------------------------------------------------------------------
(* The grub command (grub.go): RunMenu, entered with the menu entries the
   grub script defined.  A line of input is the sequence of its characters;
   i is RunMenu's menuItem. *)

\* Menuentry.Menus after the script: each entry with the menu its RunFun
\* defines
Menus == <<
    [name |-> "Ubuntu", sub |-> <<>>],
    [name |-> "Advanced options",
     sub |-> <<[name |-> "Ubuntu, with Linux 4.4", sub |-> <<>>],
               [name |-> "Ubuntu, recovery mode", sub |-> <<>>]>>] >>

\* strconv.Atoi: an optional sign and decimal digits, anything else an error
Atoi(s) ==
    LET Digit == ("0" :> 0) @@ ("1" :> 1) @@ ("2" :> 2) @@ ("3" :> 3) @@ ("4" :> 4) @@
                 ("5" :> 5) @@ ("6" :> 6) @@ ("7" :> 7) @@ ("8" :> 8) @@ ("9" :> 9)
        digits == IF s # <<>> /\ s[1] \in {"-", "+"} THEN Tail(s) ELSE s
        RECURSIVE Value(_)
        Value(d) == IF d = <<>> THEN 0
                    ELSE 10 * Value(SubSeq(d, 1, Len(d) - 1)) + Digit[d[Len(d)]]
    IN  IF digits = <<>> \/ \E k \in DOMAIN digits : digits[k] \notin DOMAIN Digit
        THEN [err |-> TRUE, n |-> 0]
        ELSE [err |-> FALSE, n |-> IF s[1] = "-" THEN 0 - Value(digits) ELSE Value(digits)]

GrubInit ==
    /\ env \in [default : {<<>>, <<"1">>}]
    /\ pc = "RunMenu"
    /\ i = 0
    /\ panicking = FALSE
    /\ root = <<>>
    /\ script = <<>>
    /\ fsOld = RamdiskBase
    /\ fsNew = EmptyFs
    /\ mounts = BootMounts
    /\ cwd = <<"old", <<>>>>
    /\ chrooted = FALSE
    /\ ops = <<>>
    /\ reqs = <<>>
    /\ inst = "none"
    /\ shell = [n |-> 0, last |-> "none", printed |-> FALSE]
    /\ flag \in {{}, {"--daemon"}}
    /\ fstab = <<>> /\ goroutines = <<>> /\ rchan = <<>> /\ complete = 0
    /\ parm = <<>> /\ kvpub = <<>> /\ spub = <<>> /\ eventPool = {} /\ events = <<>>
    /\ eventq = <<>>
    /\ menu \in {SubSeq(Menus, 1, n) : n \in 0..Len(Menus)}

\* RunMenu: the test of the loop, readline and strconv.Atoi; the index into
\* m and the RunFun of the entry; AskKernel and the next menu
RunMenu ==
    LET Return(e) == /\ pc' = "grub.done"
                     /\ UNCHANGED <<i, menu, panicking>>
    IN  /\ CASE pc = "RunMenu" ->
                 IF menu = <<>>
                 THEN Return("nil") /\ Log(Op("RunMenu", "return", "nil", <<>>, TRUE))
                 ELSE \E line \in {<<>>, <<"0">>, <<"1">>, <<"2">>, <<"1", "0">>, <<"-", "1">>,
                                   <<"x">>},
                         rerr \in BOOLEAN :
                        LET def == IF env.default = <<>> THEN <<"0">> ELSE env.default
                            mi == IF line = <<>> THEN def ELSE line
                            n == Atoi(mi)
                        IN  /\ ("--daemon" \in flag \/ rerr) => line = <<>>
                            /\ ("--daemon" \in flag) => ~rerr
                            /\ IF rerr \/ n.err
                               THEN /\ Return("err")
                                    /\ LogAll(<<Op("RunMenu", IF rerr THEN "readline" ELSE "Atoi",
                                                   mi, <<>>, FALSE),
                                                Op("RunMenu", "return", "err", <<>>, FALSE)>>)
                               ELSE /\ Log(Op("RunMenu", "Atoi", mi, n.n, TRUE))
                                    /\ i' = n.n
                                    /\ pc' = "RunMenu.index"
                                    /\ UNCHANGED <<menu, panicking>>
              [] pc = "RunMenu.index" ->
                 IF i >= Len(menu)
                 THEN /\ Return("Menu item out of range")
                      /\ LogAll(<<Op("RunMenu", "index", i, Len(menu), FALSE),
                                  Op("RunMenu", "return", "Menu item out of range", <<>>, FALSE)>>)
                 ELSE IF i < 0
                 THEN /\ Log(Op("RunMenu", "index", i, Len(menu), FALSE))
                      /\ pc' = "grub.panic"
                      /\ panicking' = TRUE
                      /\ UNCHANGED <<i, menu>>
                 ELSE /\ LogAll(<<Op("RunMenu", "index", i, Len(menu), TRUE),
                                  Op("RunMenu", "RunFun", menu[i + 1].name, <<>>, TRUE)>>)
                      /\ menu' = menu[i + 1].sub
                      /\ pc' = "AskKernel"
                      /\ UNCHANGED <<i, panicking>>
              [] pc = "AskKernel" ->
                 \E err \in BOOLEAN :
                    IF err
                    THEN Return("err") /\ Log(Op("RunMenu", "return", "err", <<>>, FALSE))
                    ELSE pc' = "RunMenu" /\ UNCHANGED <<i, menu, panicking, ops>>
              [] OTHER -> FALSE
        /\ UNCHANGED <<env, root, script, fsOld, fsNew, cwd, chrooted, reqs, inst, shell>>
        /\ UNCHANGED <<mountVars, parm, vnetVars, mounts>>

GrubSpec == GrubInit /\ [][RunMenu]_vars

-----------------------------------------------------------------------------
(* C39 *)

\* C39 as stated: a menu number below 0 or not below len(m) is rejected with
\* the error "Menu item out of range", no entry being run; and RunMenu returns
\* nil only after an entry that defines no further menu.
C39_OutOfRangeRejected ==
    \A k \in Idx :
        /\ (ops[k].op = "index" /\ (ops[k].a < 0 \/ ops[k].a >= ops[k].b)) =>
               /\ k < Len(ops)
               /\ ops[k + 1].op = "return"
               /\ ops[k + 1].a = "Menu item out of range"
        /\ (ops[k].op = "return" /\ ops[k].ok) =>
               (k = 1 \/ (ops[k - 1].op = "RunFun" /\ menu = <<>>))

====
